---- MODULE Spec2Model ----
(***************************************************************************)
(* Model of the Powershop NZ integration: the Session Client               *)
(* (client.py), the value parsers it uses (parsers.py), the refresh        *)
(* coordinator (coordinator.py) and the config entry it is set up from     *)
(* (__init__.py, config_flow.py, const.py).                                *)
(*                                                                         *)
(* Conventions.  Python's None for an optional string is the value None;   *)
(* an identifier (customer id, consumer id) is the sequence of its digit   *)
(* characters and NoId (the empty sequence) stands for None: the code only *)
(* ever tests identifiers for truthiness and \d+ never yields "".          *)
(* A URL is the sequence of its symbols: "/", a word, or one digit.        *)
(***************************************************************************)
EXTENDS Integers, Sequences, FiniteSets, TLC

VARIABLES
    entry,      \* the stored config entry (ConfigEntry.data / .options)
    coord,      \* the PowershopCoordinator built by async_setup_entry
    client,     \* the PowershopClient (Session) in use
    data,       \* DataUpdateCoordinator.data: the cached PowershopData
    phase,      \* position of the running refresh cycle in _async_update_data
    balance,    \* local variable `balance` of _async_update_data
    calls,      \* client operations invoked so far (this cycle / last call)
    outcome,    \* how the last finished cycle ended
    hist,       \* what earlier calls on this Session have achieved
    seen,       \* what the last lookup met: the /properties page, the home
                \* page, the usage page and the day it ran on
    flow,       \* the setup wizard's last submitted step and how it went
    applied,    \* a parser or a sensor reading applied to an input: what it was given and what it returned
    sensor,     \* the cumulative-energy sensor entity and the state it last wrote
    reauth,     \* the stored credentials were changed after the Session in use was built
    jar,        \* the cookie jar of each aiohttp ClientSession: the login its cookies stand for
    other       \* the PowershopClient of another account, or of a wizard or options step

vars ==
    <<entry, coord, client, data, phase, balance, calls, outcome, hist, seen,
      flow, applied, sensor, reauth, jar, other>>

\* ------------------------------------------------------------------ bounds

MaxLinks == 1       \* hyperlinks per fetched page (LongLinkLists apart)
MaxHeaders == 2     \* names of a header given to _guess_columns
MaxRows == 2        \* data rows of a CSV text given to parse_usage_csv
MaxRecords == 2     \* records of a usage series delivered to the cumulative sensor
MaxReadRecords == 3 \* records of a usage series the windowed sensors read
MaxForms == 2       \* forms of a login page

\* --------------------------------------------------------------- constants

DEFAULT_SCAN_INTERVAL_MIN == 60
DEFAULT_USAGE_DAYS == 7
DEFAULT_USAGE_SCALE == "day"
SETUP_USAGE_DAYS_FALLBACK == 7
MIN_WINDOW_DAYS == 1

AUTH_METHOD_EMAIL_PASSWORD == "email_password"
AUTH_METHOD_COOKIE == "cookie"
BASE_URL == "https://secure.powershop.co.nz"

\* ----------------------------------------------------------- basic values

None == "None"
NoId == <<>>
Truthy(s) == s # None /\ s # ""

Digits == {"0", "1", "2", "3", "4", "5", "6", "7", "8", "9"}

Min(S) == CHOOSE x \in S : \A y \in S : x <= y
Max2(a, b) == IF a >= b THEN a ELSE b

\* All sequences over S of length at most n.
SeqsUpTo(S, n) == UNION {[1..k -> S] : k \in 0..n}

RECURSIVE Concat(_)
Concat(ss) == IF ss = <<>> THEN <<>> ELSE Head(ss) \o Concat(Tail(ss))

\* Failure taxonomy (spec names); ErrClass gives the Python exception class.
OK == "ok"
AuthConfigError == "AuthConfigError"
LoginFormNotFound == "LoginFormNotFound"
LoginFieldsNotFound == "LoginFieldsNotFound"
CustomerIdNotFound == "CustomerIdNotFound"
ConsumerIdNotFound == "ConsumerIdNotFound"
BalanceUnparsable == "BalanceUnparsable"
InvalidScale == "InvalidScale"
Transport == "Transport"

ErrClass(err) ==
    IF err \in {AuthConfigError, LoginFormNotFound, LoginFieldsNotFound, CustomerIdNotFound}
    THEN "PowershopAuthError"
    ELSE IF err \in {ConsumerIdNotFound, BalanceUnparsable} THEN "PowershopError"
    ELSE IF err = InvalidScale THEN "ValueError"
    ELSE "ClientError"

\* ------------------------------------------------------------------ texts
\* A text whose characters matter (a CSV header name, a CSV cell, a persisted
\* state) is the sequence of its characters.  A number is kept in hundredths
\* (12.5 is 1250): the texts of the model carry at most two decimals.  A date
\* is its day number in 2024 (1 is Monday 2024-01-01).  An optional number or
\* date is a sequence of length at most one: Absent for Python's None.

Absent == <<>>
Some(v) == <<v>>

Whitespace == {" ", "\t"}
UpperCase ==
    <<"A", "B", "C", "D", "E", "F", "G", "H", "I", "J", "K", "L", "M",
      "N", "O", "P", "Q", "R", "S", "T", "U", "V", "W", "X", "Y", "Z">>
LowerCase ==
    <<"a", "b", "c", "d", "e", "f", "g", "h", "i", "j", "k", "l", "m",
      "n", "o", "p", "q", "r", "s", "t", "u", "v", "w", "x", "y", "z">>
DigitChars == <<"0", "1", "2", "3", "4", "5", "6", "7", "8", "9">>

IsDigit(ch) == \E n \in DOMAIN DigitChars : DigitChars[n] = ch
DigitValue(ch) == (CHOOSE n \in DOMAIN DigitChars : DigitChars[n] = ch) - 1

\* str.lower() of one character, and of a text.
LowerChar(ch) ==
    IF \E n \in DOMAIN UpperCase : UpperCase[n] = ch
    THEN LowerCase[CHOOSE n \in DOMAIN UpperCase : UpperCase[n] = ch]
    ELSE ch
Lower(s) == [n \in DOMAIN s |-> LowerChar(s[n])]

\* \w of a regular expression.
IsWordChar(ch) ==
    \/ IsDigit(ch) \/ ch = "_"
    \/ \E n \in DOMAIN LowerCase : LowerCase[n] = LowerChar(ch)

\* str.strip()
RECURSIVE LStrip(_)
LStrip(s) == IF s # <<>> /\ Head(s) \in Whitespace THEN LStrip(Tail(s)) ELSE s
RECURSIVE RStrip(_)
RStrip(s) ==
    IF s # <<>> /\ s[Len(s)] \in Whitespace THEN RStrip(SubSeq(s, 1, Len(s) - 1)) ELSE s
Strip(s) == RStrip(LStrip(s))

\* sub occurs in s at position n; `sub in s`.
OccursAt(s, sub, n) == n + Len(sub) - 1 <= Len(s) /\ SubSeq(s, n, n + Len(sub) - 1) = sub
Contains(s, sub) == \E n \in 1..(Len(s) + 1) : OccursAt(s, sub, n)

\* s.replace(sub, ""), sub not empty: the occurrences from the left.
RECURSIVE RemoveAll(_, _)
RemoveAll(s, sub) ==
    IF s = <<>> THEN <<>>
    ELSE IF OccursAt(s, sub, 1) THEN RemoveAll(SubSeq(s, Len(sub) + 1, Len(s)), sub)
    ELSE <<Head(s)>> \o RemoveAll(Tail(s), sub)

\* The value of a run of digits read as a whole number.
RECURSIVE WholeValue(_)
WholeValue(ds) ==
    IF ds = <<>> THEN 0
    ELSE 10 * WholeValue(SubSeq(ds, 1, Len(ds) - 1)) + DigitValue(ds[Len(ds)])

AllDigits(ds) == \A n \in DOMAIN ds : IsDigit(ds[n])

\* The hundredths a fraction part stands for (its first two decimals).
FractionValue(ds) ==
    IF ds = <<>> THEN 0
    ELSE IF Len(ds) = 1 THEN 10 * DigitValue(ds[1])
    ELSE 10 * DigitValue(ds[1]) + DigitValue(ds[2])

\* An unsigned decimal literal: digits, digits.digits, digits. or .digits
UnsignedFloat(s) ==
    IF \E n \in DOMAIN s : s[n] = "."
    THEN LET dot == CHOOSE n \in DOMAIN s : s[n] = "."
             whole == SubSeq(s, 1, dot - 1)
             frac == SubSeq(s, dot + 1, Len(s))
         IN  IF AllDigits(whole) /\ AllDigits(frac) /\ Len(whole) + Len(frac) >= 1
             THEN Some(100 * WholeValue(whole) + FractionValue(frac))
             ELSE Absent
    ELSE IF s # <<>> /\ AllDigits(s) THEN Some(100 * WholeValue(s))
    ELSE Absent

\* float(s): surrounding whitespace and a sign are accepted; Absent stands for
\* ValueError.  (Exponents, inf, nan and underscores do not occur in the texts
\* of the model.)
SignedFloat(s) ==
    IF s # <<>> /\ Head(s) = "-"
    THEN IF UnsignedFloat(Tail(s)) = Absent THEN Absent
         ELSE Some(0 - UnsignedFloat(Tail(s))[1])
    ELSE IF s # <<>> /\ Head(s) = "+" THEN UnsignedFloat(Tail(s))
    ELSE UnsignedFloat(s)
float(s) == SignedFloat(Strip(s))

\* The decimal digits of a natural number.
RECURSIVE DigitsOf(_)
DigitsOf(n) ==
    IF n < 10 THEN <<DigitChars[n + 1]>>
    ELSE DigitsOf(n \div 10) \o <<DigitChars[(n % 10) + 1]>>

\* str(x) of a float x given in hundredths: 1250 is "12.5", 1200 is "12.0".
StrOfMagnitude(h) ==
    DigitsOf(h \div 100) \o <<".">> \o
    (IF h % 10 = 0 THEN <<DigitChars[((h % 100) \div 10) + 1]>>
     ELSE <<DigitChars[((h % 100) \div 10) + 1], DigitChars[(h % 10) + 1]>>)
str(h) == IF h < 0 THEN <<"-">> \o StrOfMagnitude(0 - h) ELSE StrOfMagnitude(h)

\* The calendar of the model: January to March 2024.
MonthLengths == <<31, 29, 31>>
MonthStart(m) == IF m = 1 THEN 1 ELSE IF m = 2 THEN 32 ELSE 61
MonthOf(d) == IF d < 32 THEN 1 ELSE IF d < 61 THEN 2 ELSE 3
DayOfMonth(d) == d - MonthStart(MonthOf(d)) + 1
\* date.weekday(): Monday is 0.
Weekday(d) == (d - 1) % 7

TwoDigits(n) == <<DigitChars[(n \div 10) + 1], DigitChars[(n % 10) + 1]>>

\* date.isoformat()
isoformat(d) ==
    <<"2", "0", "2", "4", "-">> \o TwoDigits(MonthOf(d)) \o <<"-">> \o
    TwoDigits(DayOfMonth(d))

\* A text YYYY<sep>MM<sep>DD naming a day of the calendar: the day, else Absent.
DateOfText(s, sep) ==
    IF /\ Len(s) = 10 /\ s[5] = sep /\ s[8] = sep
       /\ SubSeq(s, 1, 4) = <<"2", "0", "2", "4">>
       /\ AllDigits(SubSeq(s, 6, 7)) /\ AllDigits(SubSeq(s, 9, 10))
       /\ WholeValue(SubSeq(s, 6, 7)) \in DOMAIN MonthLengths
       /\ WholeValue(SubSeq(s, 9, 10)) \in 1..MonthLengths[WholeValue(SubSeq(s, 6, 7))]
    THEN Some(MonthStart(WholeValue(SubSeq(s, 6, 7))) + WholeValue(SubSeq(s, 9, 10)) - 1)
    ELSE Absent

\* date.fromisoformat(s); Absent stands for ValueError.
fromisoformat(s) == DateOfText(s, "-")

\* dateutil's parser.parse(s).date(), for the date texts of the model: it
\* accepts surrounding whitespace and more than one notation (2024-01-05,
\* 2024/01/05); Absent stands for its ParserError.
date_parser_parse(s) ==
    IF DateOfText(Strip(s), "-") # Absent THEN DateOfText(Strip(s), "-")
    ELSE DateOfText(Strip(s), "/")

\* ------------------------------------------------------------ parsers.py

\* Length of the maximal run of digits of url that starts at position i.
RECURSIVE DigitRun(_, _)
DigitRun(url, i) ==
    IF i <= Len(url) /\ url[i] \in Digits THEN 1 + DigitRun(url, i + 1) ELSE 0

\* re: /customers/(\d+)(?:/|$) matches at position i.
CustomerMatchAt(url, i) ==
    /\ i + 2 <= Len(url)
    /\ url[i] = "/" /\ url[i + 1] = "customers" /\ url[i + 2] = "/"
    /\ LET n == DigitRun(url, i + 3)
       IN  /\ n >= 1
           /\ (i + 3 + n > Len(url) \/ url[i + 3 + n] = "/")

parse_customer_id_from_url(url) ==
    LET ms == {i \in 1..Len(url) : CustomerMatchAt(url, i)}
    IN  IF ms = {} THEN NoId
        ELSE LET i == Min(ms) IN SubSeq(url, i + 3, i + 2 + DigitRun(url, i + 3))

\* Lexicographic (string) order on identifiers: digit characters compare as
\* their code points, a proper prefix sorts first.
DigitCode(d) == CHOOSE n \in 0..9 : <<"0", "1", "2", "3", "4", "5", "6", "7", "8", "9">>[n + 1] = d

RECURSIVE StrLess(_, _)
StrLess(a, b) ==
    IF a = <<>> THEN b # <<>>
    ELSE IF b = <<>> THEN FALSE
    ELSE IF Head(a) = Head(b) THEN StrLess(Tail(a), Tail(b))
    ELSE DigitCode(Head(a)) < DigitCode(Head(b))

RECURSIVE SortedIds(_)
SortedIds(S) ==
    IF S = {} THEN <<>>
    ELSE LET m == CHOOSE x \in S : \A y \in S \ {x} : StrLess(x, y)
         IN  <<m>> \o SortedIds(S \ {m})

\* The identifiers as re.findall yields them, neither deduplicated nor sorted.
parse_consumer_ids_unsorted(html) == html.found

\* html.found: the values of every selected_consumer_id=(\d+) occurrence,
\* in document order (re.findall).
parse_consumer_ids_from_usage_html(html) ==
    SortedIds({html.found[i] : i \in DOMAIN html.found})

\* A text is abstracted to the amount of its first _MONEY_RE match, NoMoney
\* when the pattern does not occur.
NoMoney == -1

parse_balance_nzd_from_balance_html(html) ==
    LET text == IF html.has_container THEN html.container_text ELSE html.doc_text
    IN  text

\* The words _to_float and _guess_columns look for.
W_date == <<"d", "a", "t", "e">>
W_day == <<"d", "a", "y">>
W_period == <<"p", "e", "r", "i", "o", "d">>
W_start == <<"s", "t", "a", "r", "t">>
W_end == <<"e", "n", "d">>
W_kwh == <<"k", "w", "h">>
W_usage == <<"u", "s", "a", "g", "e">>
W_energy == <<"e", "n", "e", "r", "g", "y">>
W_consumption == <<"c", "o", "n", "s", "u", "m", "p", "t", "i", "o", "n">>
W_use == <<"u", "s", "e">>
W_estimate == <<"e", "s", "t", "i", "m", "a", "t", "e">>
W_cost == <<"c", "o", "s", "t">>
W_price == <<"p", "r", "i", "c", "e">>
W_nzd == <<"n", "z", "d">>
W_dollar == <<"$">>
W_comma == <<",">>
W_NZD == <<"N", "Z", "D">>

\* A regular expression's \b before position n of s.
WordAt(s, n) == n \in DOMAIN s /\ IsWordChar(s[n])
Boundary(s, n) == WordAt(s, n - 1) # WordAt(s, n)

\* The position after a run of whitespace starting at n (\s*).
RECURSIVE SkipSpaces(_, _)
SkipSpaces(s, n) ==
    IF n \in DOMAIN s /\ s[n] \in Whitespace THEN SkipSpaces(s, n + 1) ELSE n

\* The position after a match of \bkwh\b (of \bkw\s*h\b when spaced) that
\* starts at n, ignoring case; 0 when there is none.
UnitMatchEnd(s, n, spaced) ==
    LET h == IF spaced THEN SkipSpaces(s, n + 2) ELSE n + 2
    IN  IF /\ n + 1 \in DOMAIN s /\ h \in DOMAIN s
           /\ LowerChar(s[n]) = "k" /\ LowerChar(s[n + 1]) = "w" /\ LowerChar(s[h]) = "h"
           /\ Boundary(s, n) /\ Boundary(s, h + 1)
        THEN h + 1
        ELSE 0

\* re.sub(pattern, "", s, flags=re.I), from position n on.
RECURSIVE SubUnitFrom(_, _, _)
SubUnitFrom(s, n, spaced) ==
    IF n > Len(s) THEN <<>>
    ELSE IF UnitMatchEnd(s, n, spaced) # 0 THEN SubUnitFrom(s, UnitMatchEnd(s, n, spaced), spaced)
    ELSE <<s[n]>> \o SubUnitFrom(s, n + 1, spaced)
SubUnit(s, spaced) == SubUnitFrom(s, 1, spaced)

\* A cell a short row does not have (csv.DictReader's restval, None).
NoCell == <<None>>
OrEmpty(cell) == IF cell = NoCell THEN <<>> ELSE cell

\* _to_float, once the text is stripped and known not to be empty.
ToFloatStripped(s) ==
    float(Strip(SubUnit(Strip(SubUnit(
        Strip(RemoveAll(RemoveAll(RemoveAll(s, W_comma), W_dollar), W_NZD)),
        FALSE)), TRUE)))

_to_float(s) ==
    LET stripped == Strip(OrEmpty(s))
    IN  IF stripped = <<>> THEN Absent ELSE ToFloatStripped(stripped)

\* lh of a header h: h.strip().lower()
Lowered(h) == Lower(Strip(h))

\* The header of the first position of a loop that breaks, None when the
\* loop finds none.
FirstOf(headers, positions) ==
    IF positions = {} THEN Absent
    ELSE Some(headers[CHOOSE n \in positions : \A m \in positions : n <= m])

\* The conditions of the six loops over the headers, on a lowered header.
IsDateName(lh) == lh \in {W_date, W_day, W_period, W_start} \/ Contains(lh, W_date)
IsEndName(lh) == lh = W_end
IsKwhName(lh) == Contains(lh, W_kwh) \/ lh \in {W_usage, W_energy, W_consumption}
IsUseName(lh) ==
    Contains(lh, W_use) /\ ~Contains(lh, W_estimate) /\ ~Contains(lh, W_cost)
IsCostName(lh) ==
    \/ Contains(lh, W_cost) \/ Contains(lh, W_price)
    \/ Contains(lh, W_dollar) \/ Contains(lh, W_nzd)
IsEstimateName(lh) == lh = W_estimate

DateNamed(headers) ==
    FirstOf(headers, {n \in DOMAIN headers : IsDateName(Lowered(headers[n]))})
EndNamed(headers) ==
    FirstOf(headers, {n \in DOMAIN headers : IsEndName(Lowered(headers[n]))})
KwhNamed(headers) ==
    FirstOf(headers, {n \in DOMAIN headers : IsKwhName(Lowered(headers[n]))})
UseNamed(headers) ==
    FirstOf(headers, {n \in DOMAIN headers : IsUseName(Lowered(headers[n]))})
CostNamed(headers) ==
    FirstOf(headers, {n \in DOMAIN headers : IsCostName(Lowered(headers[n]))})
EstimateNamed(headers) ==
    FirstOf(headers, {n \in DOMAIN headers : IsEstimateName(Lowered(headers[n]))})

Columns(date_col, kwh_col, cost_col) ==
    [date_col |-> date_col, kwh_col |-> kwh_col, cost_col |-> cost_col]

_guess_columns(headers) ==
    LET date_col == DateNamed(headers)
        kwh_col == KwhNamed(headers)
        cost_col == CostNamed(headers)
    IN  Columns(
            IF date_col # Absent THEN date_col
            ELSE IF EndNamed(headers) # Absent THEN EndNamed(headers)
            ELSE IF headers # <<>> THEN Some(headers[1])
            ELSE Absent,
            IF kwh_col # Absent THEN kwh_col ELSE UseNamed(headers),
            IF cost_col # Absent THEN cost_col ELSE EstimateNamed(headers))

UsageRecord(when, kwh, cost_nzd) == [when |-> when, kwh |-> kwh, cost_nzd |-> cost_nzd]

\* out.sort(key=lambda r: r.when): a stable sort by date.
RECURSIVE InsertByWhen(_, _)
InsertByWhen(sorted, r) ==
    IF sorted = <<>> THEN <<r>>
    ELSE IF r.when < Head(sorted).when THEN <<r>> \o sorted
    ELSE <<Head(sorted)>> \o InsertByWhen(Tail(sorted), r)

RECURSIVE SortByWhen(_)
SortByWhen(rows) ==
    IF rows = <<>> THEN <<>>
    ELSE InsertByWhen(SortByWhen(SubSeq(rows, 1, Len(rows) - 1)), rows[Len(rows)])

\* A CSV text is what csv.DictReader reads from it with the sniffed dialect:
\* the fieldnames of its first line and the cells of each line after it that
\* is not blank (DictReader itself skips blank lines).

\* `if col` of a column name: None and the empty name are false.
TruthyCol(col) == col # Absent /\ col[1] # <<>>

\* row.get(col[1]): a name that occurs twice keeps its last cell, a row
\* shorter than the header has None for the cells it lacks.
RowGet(fieldnames, row, col) ==
    LET n == CHOOSE n \in DOMAIN fieldnames :
                 /\ fieldnames[n] = col[1]
                 /\ \A m \in DOMAIN fieldnames : fieldnames[m] = col[1] => m <= n
    IN  IF n \in DOMAIN row THEN row[n] ELSE NoCell

\* raw_date = (row.get(date_col) or "").strip() if date_col else ""
RawDate(fieldnames, row, col) ==
    IF TruthyCol(col) THEN Strip(OrEmpty(RowGet(fieldnames, row, col))) ELSE <<>>

\* _to_float(row.get(col, "")) if col else None
CellFloat(fieldnames, row, col) ==
    IF TruthyCol(col) THEN _to_float(RowGet(fieldnames, row, col)) ELSE Absent

\* The loop body, were a row whose numbers cannot be converted skipped too.
RowRecords_strict(fieldnames, row, cols) ==
    LET raw_date == RawDate(fieldnames, row, cols.date_col)
        d == date_parser_parse(raw_date)
    IN  IF raw_date = <<>> \/ d = Absent THEN <<>>
        ELSE IF CellFloat(fieldnames, row, cols.kwh_col) = Absent THEN <<>>
        ELSE <<UsageRecord(d[1], CellFloat(fieldnames, row, cols.kwh_col),
                           CellFloat(fieldnames, row, cols.cost_col))>>

\* The body of the loop over the rows: the records of one row.
RowRecords(fieldnames, row, cols) ==
    LET raw_date == RawDate(fieldnames, row, cols.date_col)
        d == date_parser_parse(raw_date)
    IN  IF raw_date = <<>> THEN <<>>
        ELSE IF d = Absent THEN <<>>
        ELSE <<UsageRecord(d[1], CellFloat(fieldnames, row, cols.kwh_col),
                           CellFloat(fieldnames, row, cols.cost_col))>>

RECURSIVE RowsRecords(_, _, _)
RowsRecords(fieldnames, rows, cols) ==
    IF rows = <<>> THEN <<>>
    ELSE RowRecords(fieldnames, Head(rows), cols) \o RowsRecords(fieldnames, Tail(rows), cols)

parse_usage_csv(csv_text) ==
    LET cols == _guess_columns(csv_text.fieldnames)
    IN  IF csv_text.fieldnames = <<>> THEN <<>>
        ELSE SortByWhen(RowsRecords(csv_text.fieldnames, csv_text.rows, cols))

\* ------------------------------------------------------------- client.py

\* The Cookie header value: cookie_header.strip().
_cookie_header_value(cookie_header) ==
    IF cookie_header = " sid=A " THEN "sid=A" ELSE cookie_header

\* The headers every request starts from: headers = dict(DEFAULT_HEADERS).
DEFAULT_HEADERS ==
    [h \in {"User-Agent", "Accept", "Accept-Language"} |->
        IF h = "User-Agent"
        THEN "Mozilla/5.0 (Macintosh; Intel Mac OS X 10_15_7) AppleWebKit/605.1.15 (KHTML, like Gecko) Version/17.0 Safari/605.1.15"
        ELSE IF h = "Accept"
        THEN "text/html,application/xhtml+xml,application/xml;q=0.9,*/*;q=0.8"
        ELSE "en-NZ,en;q=0.9"]

NoQuery == [start |-> 0, end |-> 0, scale |-> None]
NoForm == [url |-> None, fields |-> <<>>, csrf |-> None]

\* One HTTP request as handed to the aiohttp session.  cid is the customer id
\* substituted into the path and referer templates.
Request(method, path, cid, referer, cookie, sel, q, form) ==
    [method |-> method, path |-> path, cid |-> cid, headers |-> DEFAULT_HEADERS,
     referer |-> referer,
     cookie |-> IF Truthy(cookie) THEN _cookie_header_value(cookie) ELSE None,
     sel |-> sel, q |-> q, form |-> form]

\* _get_text leaving the Referer header out.
_get_text_unreferred(c, path, cid, referer, sel, q) ==
    Request("GET", path, cid, None, c.cookie, sel, q, NoForm)

_get_text(c, path, cid, referer, sel, q) ==
    Request("GET", path, cid, referer, c.cookie, sel, q, NoForm)

_post_text(c, url, fields, referer, csrf) ==
    Request("POST", "form-action", NoId, referer, c.cookie, NoId, NoQuery,
            [url |-> url, fields |-> fields, csrf |-> csrf])

\* What a client operation leaves behind: the Session, the requests it issued,
\* the failure raised (OK when it returned) and the value returned.
Result(c, reqs, err, id, bal, recs) ==
    [c |-> c, reqs |-> reqs, err |-> err, id |-> id, bal |-> bal, recs |-> recs]

Return(c, reqs, id, bal, recs) == Result(c, reqs, OK, id, bal, recs)
Raise(c, reqs, err) == Result(c, reqs, err, NoId, NoMoney, <<>>)

\* --- login form discovery.  An input is [type, name, id, value] with "" for
\* an absent attribute (get_attr: (inp.get(key) or "").strip()); attribute
\* values are lower-case.  Substring tests range over the names the model's
\* pages use.
HasEmailWord(s) == s \in {"email", "user[email]"}
HasPasswordWord(s) == s \in {"password", "user[password]"}

looks_like_email(inp) ==
    inp.type = "email" \/ HasEmailWord(inp.name) \/ HasEmailWord(inp.id)

looks_like_password(inp) ==
    \/ inp.type = "password" \/ HasPasswordWord(inp.name) \/ HasPasswordWord(inp.id)
    \/ inp.name = "pass" \/ inp.id = "pass"

score(form) ==
    LET inputs == {form.inputs[i] : i \in DOMAIN form.inputs}
    IN  (IF \E i \in inputs : looks_like_password(i) THEN 10 ELSE 0)
        + (IF \E i \in inputs : looks_like_email(i) THEN 5 ELSE 0)
        + (IF \E i \in inputs : i.name = "authenticity_token" THEN 2 ELSE 0)

\* The last form of maximal score.
BestForm_last(forms) ==
    LET best == -Min({-i : i \in {k \in DOMAIN forms :
                        \A j \in DOMAIN forms : score(forms[j]) <= score(forms[k])}})
    IN  forms[best]

\* max(forms, key=score): the first form of maximal score.
BestForm(forms) ==
    LET best == Min({i \in DOMAIN forms :
                        \A j \in DOMAIN forms : score(forms[j]) <= score(forms[i])})
    IN  forms[best]

InputName(inp) == IF inp.name # "" THEN inp.name ELSE inp.id

\* The loop over the chosen form's inputs: acc = [hidden, email_name, pass_name].
RECURSIVE ScanInputs(_, _)
ScanInputs(inputs, acc) ==
    IF inputs = <<>> THEN acc
    ELSE LET inp == Head(inputs)
             name == InputName(inp)
             nxt ==
                IF name = "" THEN acc
                ELSE IF inp.type = "hidden"
                THEN [acc EXCEPT !.hidden =
                        [n \in DOMAIN acc.hidden \cup {name} |->
                            IF n = name THEN inp.value ELSE acc.hidden[n]]]
                ELSE IF acc.email_name = None /\ looks_like_email(inp)
                THEN [acc EXCEPT !.email_name = name]
                ELSE IF acc.pass_name = None /\ looks_like_password(inp)
                THEN [acc EXCEPT !.pass_name = name]
                ELSE acc
         IN  ScanInputs(Tail(inputs), nxt)

\* urljoin(BASE_URL, action) unless the action is absolute.
ActionUrl(action) ==
    LET a == IF action = "" THEN "/" ELSE action
    IN  IF a \in {"https://elsewhere/login"} THEN <<a>> ELSE <<BASE_URL, a>>

FormFields(form, acc) ==
    [err |-> IF acc.email_name = None \/ acc.pass_name = None
             THEN LoginFieldsNotFound ELSE OK,
     action_url |-> ActionUrl(form.action), hidden |-> acc.hidden,
     email_name |-> acc.email_name, pass_name |-> acc.pass_name]

FormOf(form) ==
    FormFields(form, ScanInputs(form.inputs,
                                [hidden |-> <<>>, email_name |-> None, pass_name |-> None]))

_find_login_form_and_fields(html) ==
    IF html.forms = <<>>
    THEN [err |-> LoginFormNotFound, action_url |-> <<>>, hidden |-> <<>>,
          email_name |-> None, pass_name |-> None]
    ELSE FormOf(BestForm(html.forms))

_extract_csrf_token(html) == html.csrf

\* payload = dict(hidden); payload[email_name] = email; payload[pass_name] = password
LoginPayload(f, email, password) ==
    [n \in DOMAIN f.hidden \cup {f.email_name, f.pass_name} |->
        IF n = f.pass_name THEN password
        ELSE IF n = f.email_name THEN email
        ELSE f.hidden[n]]

\* --- the operations of PowershopClient.  c is the Session; env holds the
\* portal's response to each request the operation may issue.

\* login_if_needed, from the POST on: reqs holds the GET and the POST.
LoginPosted(c, env, reqs) ==
    IF ~env.post.ok THEN Raise(c, reqs, Transport)
    ELSE Return(c, reqs, NoId, NoMoney, <<>>)

\* login_if_needed, from the parsed login page f on.
LoginSubmit(c, env, q1, f) ==
    IF f.err # OK THEN Raise(c, <<q1>>, f.err)
    ELSE LoginPosted(c, env,
            <<q1, _post_text(c, f.action_url, LoginPayload(f, c.email, c.password),
                             "BASE/", _extract_csrf_token(env.root))>>)

\* login_if_needed, from the GET of the root page (request q1) on.
LoginFetched(c, env, q1) ==
    IF ~env.root.ok THEN Raise(c, <<q1>>, Transport)
    ELSE LoginSubmit(c, env, q1, _find_login_form_and_fields(env.root))

\* login_if_needed taking a Session that has already resolved its customer
\* for logged in.
login_if_needed_once(c, env) ==
    IF Truthy(c.cookie) \/ c.customer_id # NoId THEN Return(c, <<>>, NoId, NoMoney, <<>>)
    ELSE IF ~(Truthy(c.email) /\ Truthy(c.password)) THEN Raise(c, <<>>, AuthConfigError)
    ELSE LoginFetched(c, env, _get_text(c, "/", NoId, None, NoId, NoQuery))

login_if_needed(c, env) ==
    IF Truthy(c.cookie) THEN Return(c, <<>>, NoId, NoMoney, <<>>)
    ELSE IF ~(Truthy(c.email) /\ Truthy(c.password)) THEN Raise(c, <<>>, AuthConfigError)
    ELSE LoginFetched(c, env, _get_text(c, "/", NoId, None, NoId, NoQuery))

\* The scan keeping the last href that parses instead of returning at the first.
RECURSIVE LastCustomerId(_)
LastCustomerId(links) ==
    IF links = <<>> THEN NoId
    ELSE IF LastCustomerId(Tail(links)) # NoId THEN LastCustomerId(Tail(links))
    ELSE parse_customer_id_from_url(Head(links))

\* for a in soup.find_all("a", href=True): the first href that parses.
RECURSIVE FirstCustomerId(_)
FirstCustomerId(links) ==
    IF links = <<>> THEN NoId
    ELSE IF parse_customer_id_from_url(Head(links)) # NoId
    THEN parse_customer_id_from_url(Head(links))
    ELSE FirstCustomerId(Tail(links))

\* ensure_customer_id: a page's links have been scanned with result cid;
\* on a match it is cached and returned, else the operation goes on as `otherwise`.
CustomerFound(c, reqs, cid, otherwise) ==
    IF cid # NoId THEN Return([c EXCEPT !.customer_id = cid], reqs, cid, NoMoney, <<>>)
    ELSE otherwise

\* ensure_customer_id, the fallback on the home page (reqs: both GETs).
CustomerFromHome(c, env, reqs) ==
    IF ~env.home.ok THEN Raise(c, reqs, Transport)
    ELSE CustomerFound(c, reqs, FirstCustomerId(env.home.links),
                       Raise(c, reqs, CustomerIdNotFound))

\* ensure_customer_id, from the GET of /properties (request q1) on.
CustomerFromProperties(c, env, q1) ==
    IF ~env.properties.ok THEN Raise(c, <<q1>>, Transport)
    ELSE CustomerFound(c, <<q1>>, FirstCustomerId(env.properties.links),
            CustomerFromHome(c, env, <<q1, _get_text(c, "/", NoId, None, NoId, NoQuery)>>))

\* ensure_customer_id without the early return on a cached id.
ensure_customer_id_uncached(c, env) ==
    CustomerFromProperties(c, env,
        _get_text(c, "/properties", NoId, "BASE/", NoId, NoQuery))

ensure_customer_id(c, env) ==
    IF c.customer_id # NoId THEN Return(c, <<>>, c.customer_id, NoMoney, <<>>)
    ELSE CustomerFromProperties(c, env,
            _get_text(c, "/properties", NoId, "BASE/", NoId, NoQuery))

\* ensure_consumer_id forgetting the customer id when the usage page names
\* no consumer.
ConsumerFound_forgetting(c, reqs, consumer_ids) ==
    IF consumer_ids = <<>>
    THEN Raise([c EXCEPT !.customer_id = NoId], reqs, ConsumerIdNotFound)
    ELSE Return([c EXCEPT !.consumer_id = consumer_ids[1]], reqs,
                consumer_ids[1], NoMoney, <<>>)

\* ensure_consumer_id, from the parsed usage page on.
ConsumerFound(c, reqs, consumer_ids) ==
    IF consumer_ids = <<>> THEN Raise(c, reqs, ConsumerIdNotFound)
    ELSE Return([c EXCEPT !.consumer_id = consumer_ids[1]], reqs,
                consumer_ids[1], NoMoney, <<>>)

\* ensure_consumer_id, from the GET of the usage page on.
ConsumerFromUsage(c, env, reqs) ==
    IF ~env.usage.ok THEN Raise(c, reqs, Transport)
    ELSE ConsumerFound(c, reqs, parse_consumer_ids_from_usage_html(env.usage))

\* ensure_consumer_id, after ensure_customer_id has finished with r1.
ConsumerWithCustomer(env, r1) ==
    IF r1.err # OK THEN r1
    ELSE ConsumerFromUsage(r1.c, env,
            Append(r1.reqs, _get_text(r1.c, "/customers/{cid}/usage", r1.id,
                                      "BASE/customers/{cid}/balance", NoId, NoQuery)))

ensure_consumer_id(c, env) ==
    IF c.consumer_id # NoId THEN Return(c, <<>>, c.consumer_id, NoMoney, <<>>)
    ELSE ConsumerWithCustomer(env, ensure_customer_id(c, env))

\* customer_id or await self.ensure_customer_id()
CustomerOr(c, customer_id, env) ==
    IF customer_id # NoId THEN Return(c, <<>>, customer_id, NoMoney, <<>>)
    ELSE ensure_customer_id(c, env)

\* consumer_id or await self.ensure_consumer_id()
ConsumerOr(c, consumer_id, env) ==
    IF consumer_id # NoId THEN Return(c, <<>>, consumer_id, NoMoney, <<>>)
    ELSE ensure_consumer_id(c, env)

\* fetch_balance_nzd, from the parsed balance on.
BalanceParsed(c, reqs, bal) ==
    IF bal = NoMoney THEN Raise(c, reqs, BalanceUnparsable)
    ELSE Return(c, reqs, NoId, bal, <<>>)

\* fetch_balance_nzd, from the GET of the balance page on.
BalanceFetched(c, env, reqs) ==
    IF ~env.balance.ok THEN Raise(c, reqs, Transport)
    ELSE BalanceParsed(c, reqs, parse_balance_nzd_from_balance_html(env.balance))

\* fetch_balance_nzd, after the customer id has been resolved with r1.
BalanceWithCustomer(env, r1) ==
    IF r1.err # OK THEN r1
    ELSE BalanceFetched(r1.c, env,
            Append(r1.reqs, _get_text(r1.c, "/customers/{cid}/balance", r1.id,
                                      "BASE/", NoId, NoQuery)))

fetch_balance_nzd(c, customer_id, env) ==
    BalanceWithCustomer(env, CustomerOr(c, customer_id, env))

Scales == {"day", "week", "month", "billing"}

\* fetch_usage_records, from the GET of the CSV export on.
UsageCsvFetched(c, env, reqs) ==
    IF ~env.csv.ok THEN Raise(c, reqs, Transport)
    ELSE Return(c, reqs, NoId, NoMoney, parse_usage_csv(env.csv))

\* The window and the CSV request, were the number of days taken as given.
UsagePrimed_unclamped(c, cid, scale, days, env, reqs) ==
    IF ~env.prime.ok THEN Raise(c, reqs, Transport)
    ELSE UsageCsvFetched(c, env,
            Append(reqs, _get_text(c, "/usage/data.csv", cid,
                                   "BASE/customers/{cid}/usage", NoId,
                                   [start |-> env.today - days,
                                    end |-> env.today, scale |-> scale])))

\* fetch_usage_records, the window and the CSV request, after the priming GET.
UsagePrimed(c, cid, scale, days, env, reqs) ==
    IF ~env.prime.ok THEN Raise(c, reqs, Transport)
    ELSE UsageCsvFetched(c, env,
            Append(reqs, _get_text(c, "/usage/data.csv", cid,
                                   "BASE/customers/{cid}/usage", NoId,
                                   [start |-> env.today - Max2(MIN_WINDOW_DAYS, days),
                                    end |-> env.today, scale |-> scale])))

\* fetch_usage_records asking for the CSV export without the priming GET.
UsageWithConsumer_unprimed(cid, scale, days, env, reqs1, r2) ==
    IF r2.err # OK THEN Raise(r2.c, reqs1 \o r2.reqs, r2.err)
    ELSE UsageCsvFetched(r2.c, env,
            Append(reqs1 \o r2.reqs,
                   _get_text(r2.c, "/usage/data.csv", cid,
                             "BASE/customers/{cid}/usage", NoId,
                             [start |-> env.today - Max2(MIN_WINDOW_DAYS, days),
                              end |-> env.today, scale |-> scale])))

\* fetch_usage_records, the priming GET, after the consumer id has been
\* resolved with r2 (reqs1: the requests issued before that).
UsageWithConsumer(cid, scale, days, env, reqs1, r2) ==
    IF r2.err # OK THEN Raise(r2.c, reqs1 \o r2.reqs, r2.err)
    ELSE UsagePrimed(r2.c, cid, scale, days, env,
            Append(reqs1 \o r2.reqs,
                   _get_text(r2.c, "/customers/{cid}/usage", cid,
                             "BASE/customers/{cid}/balance", r2.id, NoQuery)))

\* fetch_usage_records, after the customer id has been resolved with r1.
UsageWithCustomer(consumer_id, scale, days, env, r1) ==
    IF r1.err # OK THEN r1
    ELSE UsageWithConsumer(r1.id, scale, days, env, r1.reqs,
                           ConsumerOr(r1.c, consumer_id, env))

fetch_usage_records(c, customer_id, consumer_id, scale, days, env) ==
    IF scale \notin Scales THEN Raise(c, <<>>, InvalidScale)
    ELSE UsageWithCustomer(consumer_id, scale, days, env, CustomerOr(c, customer_id, env))

\* ------------------------------------------------------ portal responses

H_balance == <<"/", "customers", "/", "4", "2", "/", "balance">>
H_bare == <<"/", "customers", "/", "7">>
H_other == <<"/", "customers", "/", "7", "x", "/">>
Hrefs == {H_balance, H_bare, H_other}

F_hidden == [type |-> "hidden", name |-> "authenticity_token", id |-> "", value |-> "tok"]
F_email == [type |-> "email", name |-> "user[email]", id |-> "", value |-> ""]
F_password == [type |-> "password", name |-> "", id |-> "pass", value |-> ""]
F_text == [type |-> "text", name |-> "q", id |-> "", value |-> ""]
LoginForm == [action |-> "/login", inputs |-> <<F_hidden, F_email, F_password>>]
SearchForm == [action |-> "", inputs |-> <<F_text>>]
FormLists == {<<>>, <<SearchForm>>, <<SearchForm, LoginForm>>}

Page(ok, links, forms, csrf) == [ok |-> ok, links |-> links, forms |-> forms, csrf |-> csrf]
FailPage == Page(FALSE, <<>>, <<>>, None)
LongLinkLists == {<<H_other, H_bare, H_balance>>, <<H_balance, H_bare>>}
LinkLists == SeqsUpTo(Hrefs, MaxLinks) \cup LongLinkLists
LinkResponses == {FailPage} \cup {Page(TRUE, l, <<>>, None) : l \in LinkLists}
LoginResponses ==
    {FailPage} \cup {Page(TRUE, <<>>, f, t) : f \in FormLists, t \in {None, "csrf-1"}}
PostResponses == {FailPage, Page(TRUE, <<>>, <<>>, None)}

BalancePage(ok, has, ctext, dtext) ==
    [ok |-> ok, has_container |-> has, container_text |-> ctext, doc_text |-> dtext]
BalanceResponses ==
    {BalancePage(FALSE, FALSE, NoMoney, NoMoney),
     BalancePage(TRUE, TRUE, 1050, NoMoney),
     BalancePage(TRUE, TRUE, NoMoney, 2000),
     BalancePage(TRUE, FALSE, NoMoney, 2000),
     BalancePage(TRUE, FALSE, NoMoney, NoMoney)}

UsagePage(ok, found) == [ok |-> ok, found |-> found]
UsageResponses ==
    {UsagePage(FALSE, <<>>), UsagePage(TRUE, <<>>),
     UsagePage(TRUE, << <<"9">>, <<"1", "0">>, <<"9">> >>),
     UsagePage(TRUE, << <<"3">> >>)}
PrimeResponses == {UsagePage(FALSE, <<>>), UsagePage(TRUE, <<>>)}

\* The export of the portal: a row is the date and the usage of a day.
Hdr_Date == <<"D", "a", "t", "e">>
Hdr_kWh == <<"k", "W", "h">>
Row(when, kwh) == <<isoformat(when), str(kwh)>>
CsvText(ok, fieldnames, rows) == [ok |-> ok, fieldnames |-> fieldnames, rows |-> rows]
CsvResponses ==
    {CsvText(FALSE, <<>>, <<>>), CsvText(TRUE, <<Hdr_Date, Hdr_kWh>>, <<>>),
     CsvText(TRUE, <<Hdr_Date, Hdr_kWh>>, <<Row(19, 1200)>>)}
Todays == {20, 21}

\* root: GET / of login_if_needed; home: GET / of ensure_customer_id.
Env(root, post, properties, home, bal, usage, prime, csv, today) ==
    [root |-> root, post |-> post, properties |-> properties, home |-> home,
     balance |-> bal, usage |-> usage, prime |-> prime, csv |-> csv, today |-> today]

NoUsage == UsagePage(FALSE, <<>>)
NoBalance == BalancePage(FALSE, FALSE, NoMoney, NoMoney)
NoCsv == CsvText(FALSE, <<>>, <<>>)

\* The portal answers only the requests an operation issues.  Stuck(r, path)
\* says that the operation, run with no answer yet for its request to `path`,
\* stopped at that request: the answer is then drawn from `responses`, and is
\* immaterial (`none`) otherwise.
LastRequest(r) == r.reqs[Len(r.reqs)]
Stuck(r, path) == r.err = Transport /\ r.reqs # <<>> /\ LastRequest(r).path = path
StuckDiscovery(r) == Stuck(r, "/customers/{cid}/usage") /\ LastRequest(r).sel = NoId
StuckPriming(r) == Stuck(r, "/customers/{cid}/usage") /\ LastRequest(r).sel # NoId
Answers(stuck, responses, none) == IF stuck THEN responses ELSE {none}

\* ------------------------------------------- __init__.py, coordinator.py

NoData == [present |-> FALSE, balance_nzd |-> NoMoney, usage_records |-> <<>>]
PowershopData(balance_nzd, usage_records) ==
    [present |-> TRUE, balance_nzd |-> balance_nzd, usage_records |-> usage_records]

\* --------------------------------------------------------------- sensor.py

_last_record_date(records) ==
    IF records = <<>> THEN Absent ELSE Some(records[Len(records)].when)

\* sum(vals) of vals = [r.kwh for r in records if r.kwh is not None]
RECURSIVE SumOfKwh(_)
SumOfKwh(records) ==
    IF records = <<>> THEN 0
    ELSE (IF Head(records).kwh = Absent THEN 0 ELSE Head(records).kwh[1]) +
         SumOfKwh(Tail(records))

HasKwh(records) == \E n \in DOMAIN records : records[n].kwh # Absent

\* The records of a series in a window of dates.
InWindow(records, start, end_inclusive) ==
    SelectSeq(records, LAMBDA r : start <= r.when /\ r.when <= end_inclusive)

_sum_kwh(records, start, end_inclusive) ==
    IF HasKwh(InWindow(records, start, end_inclusive))
    THEN Some(SumOfKwh(InWindow(records, start, end_inclusive)))
    ELSE Absent

\* native_value of the week-to-date, month-to-date and trailing-30-day
\* sensors, read from the coordinator's data.
WeekToDateKwh(d) ==
    IF _last_record_date(d.usage_records) = Absent THEN Absent
    ELSE _sum_kwh(d.usage_records,
                  _last_record_date(d.usage_records)[1] -
                      Weekday(_last_record_date(d.usage_records)[1]),
                  _last_record_date(d.usage_records)[1])

MonthToDateKwh(d) ==
    IF _last_record_date(d.usage_records) = Absent THEN Absent
    ELSE _sum_kwh(d.usage_records,
                  MonthStart(MonthOf(_last_record_date(d.usage_records)[1])),
                  _last_record_date(d.usage_records)[1])

\* The trailing-30-day value, were the window to reach back thirty days.
Rolling30dKwh_thirty(d) ==
    IF _last_record_date(d.usage_records) = Absent THEN Absent
    ELSE _sum_kwh(d.usage_records, _last_record_date(d.usage_records)[1] - 30,
                  _last_record_date(d.usage_records)[1])

Rolling30dKwh(d) ==
    IF _last_record_date(d.usage_records) = Absent THEN Absent
    ELSE _sum_kwh(d.usage_records, _last_record_date(d.usage_records)[1] - 29,
                  _last_record_date(d.usage_records)[1])

\* The states Home Assistant keeps for an entity that has no value.
STATE_UNKNOWN == <<"u", "n", "k", "n", "o", "w", "n">>
STATE_UNAVAILABLE == <<"u", "n", "a", "v", "a", "i", "l", "a", "b", "l", "e">>

\* A state of the state machine: the state text and the last_record_date
\* attribute, if any.  NoState: async_get_last_state() returning None.
State(state, last_record_date) ==
    [present |-> TRUE, state |-> state, last_record_date |-> last_record_date]
NoState == [present |-> FALSE, state |-> <<>>, last_record_date |-> Absent]

\* PowershopEnergyTotalIncreasingSensor.  stage: "none" (no entity), "listening"
\* (async_added_to_hass has registered the coordinator listener and awaits
\* the last state) or "added".  state: the state last written; stored: the
\* state kept for restoring, as of the last shutdown; last_state: what
\* async_get_last_state returned when the entity was added.  processed is
\* bookkeeping: whether the counter has taken the coordinator's present data
\* into account.
NoSensor ==
    [stage |-> "none", _total_kwh |-> Absent, _last_date |-> Absent,
     state |-> NoState, stored |-> NoState, last_state |-> NoState,
     processed |-> FALSE]

\* native_value and extra_state_attributes as written to the state machine
\* (a value of None is written as "unknown").
StateOf(total_kwh, last_date) ==
    State(IF total_kwh = Absent THEN STATE_UNKNOWN ELSE str(total_kwh[1]),
          IF last_date = Absent THEN Absent ELSE Some(isoformat(last_date[1])))

Written(s) == [s EXCEPT !.state = StateOf(s._total_kwh, s._last_date)]

\* "If nothing restored, initialize from current window".
FromWindow(s, records) ==
    [s EXCEPT !._total_kwh = Some(SumOfKwh(records)),
              !._last_date = _last_record_date(records),
              !.processed = TRUE]

\* last_state and last_state.state not in (None, "unknown", "unavailable")
Usable(last_state) ==
    last_state.present /\ last_state.state \notin {STATE_UNKNOWN, STATE_UNAVAILABLE}

\* The try blocks of async_added_to_hass.
TakenFrom(s, last_state) ==
    IF ~Usable(last_state) THEN s
    ELSE [s EXCEPT !._total_kwh = float(last_state.state),
                   !._last_date =
                       IF last_state.last_record_date # Absent /\
                          last_state.last_record_date[1] # <<>>
                       THEN fromisoformat(last_state.last_record_date[1])
                       ELSE s._last_date,
                   !.processed = FALSE]

\* The whole of it, were the counter always started from the window.
async_added_to_hass_afresh(s, last_state, records) ==
    FromWindow(TakenFrom(s, last_state), records)

\* async_added_to_hass, from async_get_last_state on.
async_added_to_hass(s, last_state, records) ==
    IF TakenFrom(s, last_state)._total_kwh = Absent
    THEN FromWindow(TakenFrom(s, last_state), records)
    ELSE TakenFrom(s, last_state)

\* The loop, were the last counted date itself taken for new.
RECURSIVE Incremented_inclusive(_, _)
Incremented_inclusive(s, records) ==
    IF records = <<>> THEN s
    ELSE IF Head(records).kwh = Absent THEN Incremented_inclusive(s, Tail(records))
    ELSE IF s._last_date # Absent /\ Head(records).when < s._last_date[1]
    THEN Incremented_inclusive(s, Tail(records))
    ELSE Incremented_inclusive(
             [s EXCEPT !._total_kwh = Some(s._total_kwh[1] + Head(records).kwh[1]),
                       !._last_date = Some(Head(records).when)],
             Tail(records))

\* The loop over the records: "Increment for new dates only".
RECURSIVE Incremented(_, _)
Incremented(s, records) ==
    IF records = <<>> THEN s
    ELSE IF Head(records).kwh = Absent THEN Incremented(s, Tail(records))
    ELSE IF s._last_date # Absent /\ Head(records).when <= s._last_date[1]
    THEN Incremented(s, Tail(records))
    ELSE Incremented([s EXCEPT !._total_kwh = Some(s._total_kwh[1] + Head(records).kwh[1]),
                               !._last_date = Some(Head(records).when)],
                     Tail(records))

_handle_coordinator_update(s, records) ==
    IF records = <<>> THEN s
    ELSE IF s._total_kwh = Absent THEN FromWindow(s, records)
    ELSE [Incremented(s, records) EXCEPT !.processed = TRUE]

\* A function of the program applied to an input.
NoApplied == [op |-> None, input |-> NoCsv, output |-> <<>>]
Applied(op, input, output) == [op |-> op, input |-> input, output |-> output]

NoOptions == [set |-> FALSE, scan_interval_min |-> 0, usage_scale |-> None, usage_days |-> 0]
NoEntry ==
    [exists |-> FALSE,
     data |-> [auth_method |-> None, email |-> None, password |-> None, cookie |-> None],
     options |-> NoOptions]

\* async_get_clientsession(hass): the one ClientSession Home Assistant keeps
\* for the instance, the same object at every call.
async_get_clientsession == "hass.clientsession"

\* Every PowershopClient of the integration (coordinator.py 53, config_flow.py
\* 52, 81, 154, 170) is built with session=async_get_clientsession(hass).
PowershopClient(cookie, email, password, customer_id, consumer_id) ==
    [session |-> async_get_clientsession, cookie |-> cookie, email |-> email,
     password |-> password, customer_id |-> customer_id, consumer_id |-> consumer_id]

\* No ClientSession holds a cookie yet.
NoJar == [s \in {async_get_clientsession} |-> None]
NoClient == PowershopClient(None, None, None, NoId, NoId)

NoCoord ==
    [exists |-> FALSE, stored |-> FALSE, customer_id |-> NoId, consumer_id |-> NoId,
     usage_scale |-> None, usage_days |-> 0, update_interval |-> 0]

NoOutcome == [kind |-> "none", reason |-> None, err |-> OK]
NoHist == [customer |-> NoId, consumer |-> NoId, logged_in |-> FALSE]
NoSeen == <<FailPage, FailPage, [ok |-> FALSE, found |-> <<>>], 0>>

\* options.get(key, default)
OptionsGet(options, key, default) == IF options.set THEN options[key] ELSE default

\* PowershopCoordinator(...) as async_setup_entry constructs it from the entry.
SetupCoordinator(e) ==
    [exists |-> TRUE, stored |-> FALSE,
     customer_id |-> NoId, consumer_id |-> NoId,
     usage_scale |-> OptionsGet(e.options, "usage_scale", None),
     usage_days |-> OptionsGet(e.options, "usage_days", SETUP_USAGE_DAYS_FALLBACK),
     update_interval |-> OptionsGet(e.options, "scan_interval_min", DEFAULT_SCAN_INTERVAL_MIN)]

SetupClient(e) ==
    PowershopClient(e.data.cookie, e.data.email, e.data.password, NoId, NoId)

\* The except clauses with PowershopError tried before its subclass
\* PowershopAuthError.
UpdateFailedReason_base_first(err) ==
    IF ErrClass(err) \in {"PowershopAuthError", "PowershopError"} THEN "PowershopError"
    ELSE "Unexpected error"

UpdateFailedReason(err) ==
    IF ErrClass(err) = "PowershopAuthError" THEN "Auth failed"
    ELSE IF ErrClass(err) = "PowershopError" THEN "PowershopError"
    ELSE "Unexpected error"

\* _async_update_data returning the balance with no records when the usage
\* fetch fails, instead of raising UpdateFailed.
_async_update_data_partial(ph, bal, r) ==
    IF r.err # OK /\ ph = "usage"
    THEN [next |-> "idle", balance |-> NoMoney, kind |-> "return",
          reason |-> None, value |-> PowershopData(bal, <<>>)]
    ELSE IF r.err # OK
    THEN [next |-> "idle", balance |-> NoMoney, kind |-> "UpdateFailed",
          reason |-> UpdateFailedReason(r.err), value |-> NoData]
    ELSE IF ph = "login"
    THEN [next |-> "balance", balance |-> bal, kind |-> "pending",
          reason |-> None, value |-> NoData]
    ELSE IF ph = "balance"
    THEN [next |-> "usage", balance |-> r.bal, kind |-> "pending",
          reason |-> None, value |-> NoData]
    ELSE [next |-> "idle", balance |-> NoMoney, kind |-> "return",
          reason |-> None, value |-> PowershopData(bal, r.recs)]

\* _async_update_data going on to the balance whatever login_if_needed raised.
_async_update_data_login_ignored(ph, bal, r) ==
    IF ph = "login"
    THEN [next |-> "balance", balance |-> bal, kind |-> "pending",
          reason |-> None, value |-> NoData]
    ELSE IF r.err # OK
    THEN [next |-> "idle", balance |-> NoMoney, kind |-> "UpdateFailed",
          reason |-> UpdateFailedReason(r.err), value |-> NoData]
    ELSE IF ph = "balance"
    THEN [next |-> "usage", balance |-> r.bal, kind |-> "pending",
          reason |-> None, value |-> NoData]
    ELSE [next |-> "idle", balance |-> NoMoney, kind |-> "return",
          reason |-> None, value |-> PowershopData(bal, r.recs)]

\* One step of _async_update_data: ph is the call that has just finished with
\* result r, bal the local `balance`.  kind: "pending" (the body goes on),
\* "return" (a PowershopData is returned) or "UpdateFailed" (raised).
_async_update_data(ph, bal, r) ==
    IF r.err # OK
    THEN [next |-> "idle", balance |-> NoMoney, kind |-> "UpdateFailed",
          reason |-> UpdateFailedReason(r.err), value |-> NoData]
    ELSE IF ph = "login"
    THEN [next |-> "balance", balance |-> bal, kind |-> "pending",
          reason |-> None, value |-> NoData]
    ELSE IF ph = "balance"
    THEN [next |-> "usage", balance |-> r.bal, kind |-> "pending",
          reason |-> None, value |-> NoData]
    ELSE [next |-> "idle", balance |-> NoMoney, kind |-> "return",
          reason |-> None, value |-> PowershopData(bal, r.recs)]

PhaseOp(ph) ==
    IF ph = "login" THEN "login_if_needed"
    ELSE IF ph = "balance" THEN "fetch_balance_nzd" ELSE "fetch_usage_records"

NoArgs == [customer_id |-> NoId, consumer_id |-> NoId, scale |-> None, days |-> 0]
Args(customer_id, consumer_id, scale, days) ==
    [customer_id |-> customer_id, consumer_id |-> consumer_id, scale |-> scale,
     days |-> days]

\* The record of one client call: the operation and its arguments, the Session
\* before (pre) and after (post) it, what it raised, the requests it issued in
\* order (a request that failed is the last one), the identifier it returned,
\* and what the calls before it had achieved.
Call(op, args, c, r, before) ==
    [op |-> op, args |-> args, pre |-> c, post |-> r.c, err |-> r.err,
     reqs |-> r.reqs, id |-> r.id, before |-> before]

\* hist after a call of op has finished with r: the first identifier each
\* ensure_*_id call returned, and whether a login has completed.
HistAfter(h, op, r) ==
    IF r.err # OK THEN h
    ELSE IF op = "login_if_needed" THEN [h EXCEPT !.logged_in = TRUE]
    ELSE IF op = "ensure_customer_id" /\ h.customer = NoId THEN [h EXCEPT !.customer = r.id]
    ELSE IF op = "ensure_consumer_id" /\ h.consumer = NoId THEN [h EXCEPT !.consumer = r.id]
    ELSE h

\* The coordinator after the client call of phase `phase` has finished with r.
\* A failed first refresh raises ConfigEntryNotReady out of async_setup_entry:
\* the coordinator is never stored and is dropped with its Session.
CycleApply(r, u, dropped) ==
    /\ calls' = Append(calls, Call(PhaseOp(phase),
                                   Args(coord.customer_id, coord.consumer_id,
                                        coord.usage_scale, coord.usage_days),
                                   client, r, hist))
    /\ hist' = HistAfter(hist, PhaseOp(phase), r)
    /\ phase' = u.next
    /\ balance' = u.balance
    /\ outcome' = IF u.kind = "pending" THEN outcome
                  ELSE [kind |-> u.kind, reason |-> u.reason, err |-> r.err]
    /\ data' = IF u.kind = "return" THEN u.value
               ELSE IF dropped THEN NoData ELSE data
    /\ coord' = IF dropped THEN NoCoord
                ELSE IF u.kind = "return" THEN [coord EXCEPT !.stored = TRUE]
                ELSE coord
    /\ client' = IF dropped THEN NoClient ELSE r.c
    /\ reauth' = (reauth /\ ~dropped)
    /\ UNCHANGED <<entry, seen, flow, applied, sensor, jar, other>>

CycleUpdate(r, u) == CycleApply(r, u, u.kind = "UpdateFailed" /\ ~coord.stored)

CycleStep(r) == CycleUpdate(r, _async_update_data(phase, balance, r))

\* ------------------------------------------------------- config_flow.py

WizardEmails == {"", "a@b.nz"}
WizardPasswords == {"", "pw"}
WizardCookies == {"", " sid=A "}
SettingsInputs ==
    {[set |-> TRUE, scan_interval_min |-> m, usage_scale |-> sc, usage_days |-> d] :
        m \in {30}, sc \in {"day", "month"}, d \in {0, 30}}

\* The portal as one operation meets it: only the pages that operation may
\* fetch are given, the others are unused.
LoginEnv(lg, po) == Env(lg, po, FailPage, FailPage, NoBalance, NoUsage, NoUsage, NoCsv, 0)
BalanceEnv(pp, hp, b) == Env(FailPage, FailPage, pp, hp, b, NoUsage, NoUsage, NoCsv, 0)
UsageEnv(pp, hp, u, pr, csv, today) ==
    Env(FailPage, FailPage, pp, hp, NoBalance, u, pr, csv, today)

\* The portal's answers to login_if_needed(c), one environment per course.
LoginEnvs(c) ==
    UNION {{LoginEnv(lg, po) :
                po \in Answers(Stuck(login_if_needed(c, LoginEnv(lg, FailPage)),
                                     "form-action"),
                               PostResponses, FailPage)} :
           lg \in Answers(Stuck(login_if_needed(c, LoginEnv(FailPage, FailPage)), "/"),
                          LoginResponses, FailPage)}

\* The <<properties page, home page>> answers to the customer lookup of an
\* operation on c (lookup: the operation does look the customer id up).
LinkEnvs(c, lookup) ==
    IF ~lookup THEN {<<FailPage, FailPage>>}
    ELSE UNION {{<<pp, hp>> :
                    hp \in Answers(Stuck(ensure_customer_id(c,
                                             BalanceEnv(pp, FailPage, NoBalance)), "/"),
                                   LinkResponses, FailPage)} :
                pp \in LinkResponses}

CustomerEnvs(c) ==
    {BalanceEnv(l[1], l[2], NoBalance) :
        l \in LinkEnvs(c, Stuck(ensure_customer_id(c,
                                    BalanceEnv(FailPage, FailPage, NoBalance)),
                                "/properties"))}

ConsumerEnvs(c) ==
    LET F(env) == ensure_consumer_id(c, env)
        E(l, u) == UsageEnv(l[1], l[2], u, NoUsage, NoCsv, 0)
        none == <<FailPage, FailPage>>
    IN  UNION {{E(l, u) : u \in Answers(StuckDiscovery(F(E(l, NoUsage))),
                                       UsageResponses, NoUsage)} :
               l \in LinkEnvs(c, Stuck(F(E(none, NoUsage)), "/properties"))}

\* The portal's answers to fetch_balance_nzd(c, customer_id).
BalanceEnvs(c, customer_id) ==
    LET F(env) == fetch_balance_nzd(c, customer_id, env)
        E(l, b) == BalanceEnv(l[1], l[2], b)
        none == <<FailPage, FailPage>>
    IN  UNION {{E(l, b) : b \in Answers(Stuck(F(E(l, NoBalance)),
                                             "/customers/{cid}/balance"),
                                       BalanceResponses, NoBalance)} :
               l \in LinkEnvs(c, Stuck(F(E(none, NoBalance)), "/properties"))}

\* The portal's answers to fetch_usage_records(c, ...), and the day it runs on.
UsageEnvs(c, customer_id, consumer_id, scale, days) ==
    LET F(env) == fetch_usage_records(c, customer_id, consumer_id, scale, days, env)
        E(l, u, pr, csv, today) == UsageEnv(l[1], l[2], u, pr, csv, today)
        none == <<FailPage, FailPage>>
        Csvs(l, u, pr) ==
            {E(l, u, pr, csv, today) :
                csv \in CsvResponses, today \in Todays}
        Primes(l, u) ==
            UNION {IF Stuck(F(E(l, u, pr, NoCsv, 0)), "/usage/data.csv")
                   THEN Csvs(l, u, pr) ELSE {E(l, u, pr, NoCsv, 0)} :
                   pr \in Answers(StuckPriming(F(E(l, u, NoUsage, NoCsv, 0))),
                                  PrimeResponses, NoUsage)}
        Discoveries(l) ==
            UNION {Primes(l, u) :
                   u \in Answers(StuckDiscovery(F(E(l, NoUsage, NoUsage, NoCsv, 0))),
                                 UsageResponses, NoUsage)}
    IN  UNION {Discoveries(l) :
               l \in LinkEnvs(c, Stuck(F(E(none, NoUsage, NoUsage, NoCsv, 0)),
                                       "/properties"))}

CreatedEntry(method, email, password, cookie) ==
    [exists |-> TRUE,
     data |-> [auth_method |-> method, email |-> email, password |-> password,
               cookie |-> cookie],
     options |-> NoOptions]

NoFlow ==
    [step |-> None, input |-> NoEntry.data, login |-> None, balance |-> None,
     errors |-> None]

\* A wizard step after its user_input has been handled: what was entered, how
\* login_if_needed and fetch_balance_nzd ended (None: not called) and
\* errors["base"] of the form shown again (None: no form, the entry was made).
Submitted(created, login, bal, errors) ==
    [step |-> created.data.auth_method, input |-> created.data,
     login |-> login, balance |-> bal, errors |-> errors]

\* The entry made although fetch_balance_nzd raised.
SmokeBalanced_unchecked(r2, created) ==
    /\ entry' = created
    /\ flow' = Submitted(created, OK, r2.err, None)

\* The smoke test after fetch_balance_nzd has finished with r2: the else
\* branch creates the entry, the except branch shows the form with the error.
SmokeBalanced(r2, created) ==
    IF r2.err = OK
    THEN entry' = created /\ flow' = Submitted(created, OK, OK, None)
    ELSE entry' = entry /\ flow' = Submitted(created, OK, r2.err, "cannot_connect")

\* The smoke test of the wizard steps, after login_if_needed has finished with
\* r1: fetch_balance_nzd on the same client; the entry is created when both
\* passed, any exception is "cannot_connect" and stores nothing.
SmokeLoggedIn(r1, created) ==
    IF r1.err # OK
    THEN entry' = entry /\ flow' = Submitted(created, r1.err, None, "cannot_connect")
    ELSE \E env \in BalanceEnvs(r1.c, NoId) :
            SmokeBalanced(fetch_balance_nzd(r1.c, NoId, env), created)

SmokeTest(c, created) ==
    \E env \in LoginEnvs(c) : SmokeLoggedIn(login_if_needed(c, env), created)

\* PowershopNZConfigFlow.async_step_credentials with a user_input.
ConfigFlowCredentials ==
    /\ ~entry.exists
    /\ \E email \in WizardEmails, password \in WizardPasswords :
          SmokeTest(PowershopClient(None, email, password, NoId, NoId),
                    CreatedEntry(AUTH_METHOD_EMAIL_PASSWORD, email, password, None))
    /\ UNCHANGED <<coord, client, data, phase, balance, calls, outcome, hist, seen, applied, sensor, reauth, jar, other>>

\* PowershopNZConfigFlow.async_step_cookie with a user_input.
ConfigFlowCookie ==
    /\ ~entry.exists
    /\ \E cookie \in WizardCookies :
          SmokeTest(PowershopClient(cookie, None, None, NoId, NoId),
                    CreatedEntry(AUTH_METHOD_COOKIE, None, None, cookie))
    /\ UNCHANGED <<coord, client, data, phase, balance, calls, outcome, hist, seen, applied, sensor, reauth, jar, other>>

\* PowershopNZOptionsFlow.async_step_settings with a user_input: the options
\* are replaced; nothing reloads the entry, the coordinator keeps its values.
OptionsSettings ==
    /\ entry.exists
    /\ \E user_input \in SettingsInputs : entry' = [entry EXCEPT !.options = user_input]
    /\ UNCHANGED <<coord, client, data, phase, balance, calls, outcome, hist, seen, flow, applied, sensor, reauth, jar, other>>

\* new_data of async_step_auth with the keys of the other method left in.
AuthData_unpopped(d, method, email, password, cookie) ==
    IF method = AUTH_METHOD_COOKIE
    THEN [d EXCEPT !.auth_method = AUTH_METHOD_COOKIE, !.cookie = cookie]
    ELSE [d EXCEPT !.auth_method = AUTH_METHOD_EMAIL_PASSWORD,
                   !.email = email, !.password = password]

\* new_data of async_step_auth: dict(config_entry.data), updated with the
\* method and its credentials, the keys of the other method popped.
AuthData(d, method, email, password, cookie) ==
    IF method = AUTH_METHOD_COOKIE
    THEN [d EXCEPT !.auth_method = AUTH_METHOD_COOKIE, !.cookie = cookie,
                   !.email = None, !.password = None]
    ELSE [d EXCEPT !.auth_method = AUTH_METHOD_EMAIL_PASSWORD,
                   !.email = email, !.password = password, !.cookie = None]

\* The client async_step_auth validates the input with.
AuthClient(method, email, password, cookie) ==
    IF method = AUTH_METHOD_COOKIE
    THEN PowershopClient(cookie, None, None, NoId, NoId)
    ELSE PowershopClient(None, email, password, NoId, NoId)

\* The smoke test of async_step_auth on client c, by how it can end: both
\* calls returned (TRUE), or one of them raised (FALSE).
SmokeEnds(c) ==
    UNION {LET r1 == login_if_needed(c, env)
           IN  IF r1.err # OK THEN {FALSE}
               ELSE {fetch_balance_nzd(r1.c, NoId, env2).err = OK :
                        env2 \in BalanceEnvs(r1.c, NoId)} :
           env \in LoginEnvs(c)}

\* The user_input of the auth step: the method and the fields of that method
\* (those of the other method are never read).
AuthInputs ==
    {[method |-> AUTH_METHOD_COOKIE, email |-> None, password |-> None, cookie |-> k] :
        k \in WizardCookies}
    \cup {[method |-> AUTH_METHOD_EMAIL_PASSWORD, email |-> e, password |-> pw,
            cookie |-> None] : e \in WizardEmails, pw \in WizardPasswords}

\* Every user_input of the auth step with every way its smoke test can end.
AuthOutcomes ==
    UNION {{<<u, ok>> : ok \in SmokeEnds(AuthClient(u.method, u.email, u.password,
                                                     u.cookie))} : u \in AuthInputs}

\* PowershopNZOptionsFlow.async_step_auth with a user_input: the same smoke
\* test as the wizard's; when it passes, async_update_entry replaces the
\* entry's data, and any exception shows the form again and stores nothing.
\* No update listener is registered and nothing reloads the entry: the
\* coordinator and its Session stay as they are.
OptionsAuth ==
    /\ entry.exists
    /\ \E o \in AuthOutcomes :
          entry' = IF o[2]
                   THEN [entry EXCEPT !.data = AuthData(entry.data, o[1].method,
                                                        o[1].email, o[1].password,
                                                        o[1].cookie)]
                   ELSE entry
    /\ reauth' = (reauth \/ (coord.exists /\ entry'.data # entry.data))
    /\ UNCHANGED <<coord, client, data, phase, balance, calls, outcome, hist, seen, flow, applied, sensor, jar, other>>

\* ------------------------------------------------ the refresh scheduling

\* async_setup_entry: build the coordinator and start its first refresh.
Setup ==
    /\ entry.exists /\ ~coord.exists
    /\ coord' = SetupCoordinator(entry)
    /\ client' = SetupClient(entry)
    /\ data' = NoData
    /\ phase' = "login"
    /\ balance' = NoMoney
    /\ calls' = <<>>
    /\ hist' = NoHist
    /\ reauth' = FALSE
    /\ UNCHANGED <<entry, outcome, seen, flow, applied, sensor, jar, other>>

\* The update_interval timer fires on an idle, set-up coordinator.
RefreshStart ==
    /\ coord.stored /\ phase = "idle"
    /\ phase' = "login"
    /\ calls' = <<>>
    /\ UNCHANGED <<entry, coord, client, data, balance, outcome, hist, seen, flow, applied, sensor, reauth, jar, other>>

StepLogin ==
    /\ phase = "login"
    /\ \E env \in LoginEnvs(client) : CycleStep(login_if_needed(client, env))

StepBalance ==
    /\ phase = "balance"
    /\ \E env \in BalanceEnvs(client, coord.customer_id) :
          CycleStep(fetch_balance_nzd(client, coord.customer_id, env))

StepUsage ==
    /\ phase = "usage"
    /\ \E env \in UsageEnvs(client, coord.customer_id, coord.consumer_id,
                           coord.usage_scale, coord.usage_days) :
          CycleStep(fetch_usage_records(client, coord.customer_id, coord.consumer_id,
                                        coord.usage_scale, coord.usage_days, env))

\* async_unload_entry (reload, restart): the stored coordinator is dropped.
Unload ==
    /\ coord.stored /\ phase = "idle"
    /\ coord' = NoCoord
    /\ client' = NoClient
    /\ data' = NoData
    /\ balance' = NoMoney
    /\ reauth' = FALSE
    /\ UNCHANGED <<entry, phase, calls, outcome, hist, seen, flow, applied, sensor, jar, other>>

Init ==
    /\ entry = NoEntry
    /\ coord = NoCoord
    /\ client = NoClient
    /\ data = NoData
    /\ phase = "idle"
    /\ balance = NoMoney
    /\ calls = <<>>
    /\ outcome = NoOutcome
    /\ hist = NoHist
    /\ seen = NoSeen
    /\ flow = NoFlow
    /\ other = NoClient
    /\ jar = NoJar
    /\ reauth = FALSE
    /\ sensor = NoSensor
    /\ applied = NoApplied

Next ==
    \/ ConfigFlowCredentials
    \/ ConfigFlowCookie
    \/ OptionsSettings
    \/ Setup
    \/ RefreshStart
    \/ StepLogin
    \/ StepBalance
    \/ StepUsage
    \/ Unload

Spec == Init /\ [][Next]_vars

\* ------------------------------------------- the account's credentials
\* The wizard, both steps of the options flow and the refresh cycles of the
\* account, in any interleaving.

NextAuth ==
    \/ ConfigFlowCredentials
    \/ ConfigFlowCookie
    \/ OptionsSettings
    \/ OptionsAuth
    \/ Setup
    \/ RefreshStart
    \/ StepLogin
    \/ StepBalance
    \/ StepUsage
    \/ Unload

SpecAuth == Init /\ [][NextAuth]_vars

\* ------------------------------------------- the Session Client on its own
\* Any sequence of operations on one PowershopClient, built with any
\* constructor arguments; calls holds the last call only.

SessionCookies == {None, "", " sid=A "}
SessionEmails == {None, "a@b.nz"}
SessionPasswords == {None, "pw"}
GivenCustomerIds == {NoId, <<"4", "2">>}
GivenConsumerIds == {NoId, <<"5">>}
GivenScales == {"day", "hour"}
GivenDays == {7}

Called(op, args, r) ==
    /\ calls' = <<Call(op, args, client, r, hist)>>
    /\ client' = r.c
    /\ hist' = HistAfter(hist, op, r)
    /\ UNCHANGED <<entry, coord, data, phase, balance, outcome, seen, flow, applied, sensor, reauth, jar, other>>

ClientLogin ==
    \E env \in LoginEnvs(client) :
       Called("login_if_needed", NoArgs, login_if_needed(client, env))

ClientEnsureCustomer ==
    \E env \in CustomerEnvs(client) :
       Called("ensure_customer_id", NoArgs, ensure_customer_id(client, env))

ClientEnsureConsumer ==
    \E env \in ConsumerEnvs(client) :
       Called("ensure_consumer_id", NoArgs, ensure_consumer_id(client, env))

ClientFetchBalance ==
    \E customer_id \in GivenCustomerIds :
    \E env \in BalanceEnvs(client, customer_id) :
       Called("fetch_balance_nzd", Args(customer_id, NoId, None, 0),
              fetch_balance_nzd(client, customer_id, env))

ClientFetchUsage ==
    \E customer_id \in GivenCustomerIds, consumer_id \in GivenConsumerIds,
       scale \in GivenScales, days \in GivenDays :
    \E env \in UsageEnvs(client, customer_id, consumer_id, scale, days) :
       Called("fetch_usage_records", Args(customer_id, consumer_id, scale, days),
              fetch_usage_records(client, customer_id, consumer_id, scale, days, env))

InitClient ==
    /\ entry = NoEntry
    /\ coord = NoCoord
    /\ client \in {PowershopClient(k, e, pw, cu, NoId) :
                     k \in SessionCookies, e \in SessionEmails,
                     pw \in SessionPasswords, cu \in GivenCustomerIds}
    /\ data = NoData
    /\ phase = "idle"
    /\ balance = NoMoney
    /\ calls = <<>>
    /\ outcome = NoOutcome
    /\ hist = NoHist
    /\ seen = NoSeen
    /\ flow = NoFlow
    /\ other = NoClient
    /\ jar = NoJar
    /\ reauth = FALSE
    /\ sensor = NoSensor
    /\ applied = NoApplied

NextClient ==
    \/ ClientLogin
    \/ ClientEnsureCustomer
    \/ ClientEnsureConsumer
    \/ ClientFetchBalance
    \/ ClientFetchUsage

SpecClient == InitClient /\ [][NextClient]_vars

\* -------------------------------------------------- the customer lookup
\* ensure_customer_id alone, on any Session, with the pages it was answered
\* with kept in `seen`.

Lookup ==
    \E env \in CustomerEnvs(client) :
       /\ calls' = <<Call("ensure_customer_id", NoArgs, client,
                          ensure_customer_id(client, env), hist)>>
       /\ client' = ensure_customer_id(client, env).c
       /\ seen' = <<env.properties, env.home, NoUsage, 0>>
       /\ UNCHANGED <<entry, coord, data, phase, balance, outcome, hist, flow, applied, sensor, reauth, jar, other>>

\* ensure_consumer_id alone, likewise.
LookupConsumer ==
    \E env \in ConsumerEnvs(client) :
       /\ calls' = <<Call("ensure_consumer_id", NoArgs, client,
                          ensure_consumer_id(client, env), hist)>>
       /\ client' = ensure_consumer_id(client, env).c
       /\ seen' = <<env.properties, env.home, env.usage, 0>>
       /\ UNCHANGED <<entry, coord, data, phase, balance, outcome, hist, flow, applied, sensor, reauth, jar, other>>

\* The Session is discarded and a new one constructed.
Reconstruct ==
    /\ client' \in {PowershopClient(k, e, pw, cu, NoId) :
                      k \in SessionCookies, e \in SessionEmails,
                      pw \in SessionPasswords, cu \in GivenCustomerIds}
    /\ calls' = <<>>
    /\ seen' = NoSeen
    /\ UNCHANGED <<entry, coord, data, phase, balance, outcome, hist, flow, applied, sensor, reauth, jar, other>>

NextLookup == Lookup \/ LookupConsumer \/ Reconstruct

SpecLookup == InitClient /\ [][NextLookup]_vars

\* ------------------------------------------------------ the usage window
\* fetch_usage_records alone, on any Session, given both ids, for a window
\* of any number of days, with the day it ran on kept in `seen`.
WindowDays == {-3, 0, 1, 7}

FetchWindow ==
    \E customer_id \in GivenCustomerIds \ {NoId}, consumer_id \in GivenConsumerIds \ {NoId},
       days \in WindowDays :
    \E env \in UsageEnvs(client, customer_id, consumer_id, DEFAULT_USAGE_SCALE, days) :
       /\ calls' = <<Call("fetch_usage_records",
                          Args(customer_id, consumer_id, DEFAULT_USAGE_SCALE, days), client,
                          fetch_usage_records(client, customer_id, consumer_id,
                                              DEFAULT_USAGE_SCALE, days, env), hist)>>
       /\ client' = fetch_usage_records(client, customer_id, consumer_id,
                                        DEFAULT_USAGE_SCALE, days, env).c
       /\ seen' = <<env.properties, env.home, env.usage, env.today>>
       /\ UNCHANGED <<entry, coord, data, phase, balance, outcome, hist, flow, applied,
                      sensor, reauth, jar, other>>

NextWindow == FetchWindow

SpecWindow == InitClient /\ [][NextWindow]_vars

\* ------------------------------------------------------------ the parsers
\* _guess_columns and parse_usage_csv applied to a header and to a CSV text.

Hdr_Day == <<"D", "a", "y">>
Hdr_End == <<" ", "E", "n", "d", " ">>
Hdr_Updated == <<"L", "a", "s", "t", " ", "u", "p", "d", "a", "t", "e", "d">>
Hdr_Usage == <<"U", "s", "a", "g", "e">>
Hdr_Use == <<"A", "v", "e", "r", "a", "g", "e", " ", "d", "a", "i", "l", "y", " ", "u", "s", "e">>
Hdr_UseCost == <<"E", "s", "t", "i", "m", "a", "t", "e", "d", " ", "u", "s", "e", " ", "c", "o", "s", "t">>
Hdr_Estimate == <<"E", "s", "t", "i", "m", "a", "t", "e">>
Hdr_Price == <<"P", "r", "i", "c", "e", " ", "N", "Z", "D">>
Hdr_Total == <<"T", "o", "t", "a", "l">>
Hdr_Empty == <<>>
HeaderNames ==
    {Hdr_Date, Hdr_kWh, Hdr_Day, Hdr_End, Hdr_Updated, Hdr_Usage, Hdr_Use,
     Hdr_UseCost, Hdr_Estimate, Hdr_Price, Hdr_Total, Hdr_Empty}
HeaderLists == SeqsUpTo(HeaderNames, MaxHeaders)

Cell_Blank == <<" ">>
Cell_NoDate == <<"n", "/", "a">>
Cell_Jan2 == <<"2", "0", "2", "4", "-", "0", "1", "-", "0", "2">>
Cell_Jan1 == <<" ", "2", "0", "2", "4", "/", "0", "1", "/", "0", "1", " ">>
Cell_Kwh == <<"1", "2", ".", "5", " ", "k", "W", "h">>
Cell_NoKwh == <<"a", "b", "c">>
Cell_Credit == <<"-", "2", ".", "5">>
Cell_Cost == <<"$", "3", ".", "1", "0">>
\* Rows of three cells, and a short one of the date alone.
CsvRows ==
    {<<Cell_Jan2, Cell_Kwh, Cell_Cost>>, <<Cell_Jan2, Cell_NoKwh, Cell_Cost>>,
     <<Cell_Jan1, Cell_Credit, Cell_Cost>>, <<Cell_Blank, Cell_Kwh, Cell_Cost>>,
     <<Cell_NoDate, Cell_Kwh, Cell_Cost>>, <<Cell_Jan2>>}
CsvHeaders ==
    {<<Hdr_Date, Hdr_Use, Hdr_Estimate>>, <<Hdr_Total, Hdr_kWh, Hdr_Price>>,
     <<Hdr_Empty, Hdr_kWh, Hdr_Price>>}
CsvTexts == {CsvText(TRUE, h, rows) : h \in CsvHeaders, rows \in SeqsUpTo(CsvRows, MaxRows)}

InitParsers ==
    /\ entry = NoEntry
    /\ coord = NoCoord
    /\ client = NoClient
    /\ data = NoData
    /\ phase = "idle"
    /\ balance = NoMoney
    /\ calls = <<>>
    /\ outcome = NoOutcome
    /\ hist = NoHist
    /\ seen = NoSeen
    /\ flow = NoFlow
    /\ jar = NoJar
    /\ other = NoClient
    /\ reauth = FALSE
    /\ applied \in {Applied(None, csv_text, <<>>) :
                      csv_text \in CsvTexts \cup {CsvText(TRUE, h, <<>>) : h \in HeaderLists}}
    /\ sensor = NoSensor

GuessColumns ==
    /\ applied.op = None
    /\ applied' = Applied("_guess_columns", applied.input,
                          _guess_columns(applied.input.fieldnames))
    /\ UNCHANGED <<entry, coord, client, data, phase, balance, calls, outcome, hist,
                   seen, flow, sensor, reauth, jar, other>>

ParseUsageCsv ==
    /\ applied.op = None
    /\ applied' = Applied("parse_usage_csv", applied.input, parse_usage_csv(applied.input))
    /\ UNCHANGED <<entry, coord, client, data, phase, balance, calls, outcome, hist,
                   seen, flow, sensor, reauth, jar, other>>

NextParsers == GuessColumns \/ ParseUsageCsv

SpecParsers == InitParsers /\ [][NextParsers]_vars

\* ------------------------------------------------------------- the sensor
\* The cumulative-energy sensor through set-ups, refreshes and restarts.  A
\* usage series is a coordinator result: records in the order of their
\* dates, as parse_usage_csv leaves them, one record a day.

SensorDates == {1, 2, 3}
SensorKwh == {Absent, Some(-250), Some(300)}
SensorRecords == {UsageRecord(d, k, Absent) : d \in SensorDates, k \in SensorKwh}
SensorSeries ==
    {recs \in SeqsUpTo(SensorRecords, MaxRecords) :
        \A i, j \in DOMAIN recs : i < j => recs[i].when < recs[j].when}

State_garbled == <<"a", "b", "c">>

\* What async_get_last_state may return: the stored state, or after state
\* loss none, or one that is unknown, unavailable or not a number.
LastStates(s) ==
    {s.stored, NoState,
     State(STATE_UNKNOWN, s.stored.last_record_date),
     State(STATE_UNAVAILABLE, s.stored.last_record_date),
     State(State_garbled, s.stored.last_record_date)}

InitSensor ==
    /\ entry = NoEntry
    /\ coord = NoCoord
    /\ client = NoClient
    /\ data = NoData
    /\ phase = "idle"
    /\ balance = NoMoney
    /\ calls = <<>>
    /\ outcome = NoOutcome
    /\ hist = NoHist
    /\ seen = NoSeen
    /\ flow = NoFlow
    /\ jar = NoJar
    /\ other = NoClient
    /\ reauth = FALSE
    /\ applied = NoApplied
    /\ sensor = NoSensor

\* The platform is set up after the first refresh has succeeded: the entity
\* is created and, in async_added_to_hass, starts listening to the coordinator.
SensorListen ==
    /\ sensor.stage = "none"
    /\ \E recs \in SensorSeries : data' = PowershopData(1050, recs)
    /\ sensor' = [sensor EXCEPT !.stage = "listening", !._total_kwh = Absent,
                                !._last_date = Absent, !.last_state = NoState,
                                !.processed = FALSE]
    /\ UNCHANGED <<entry, coord, client, phase, balance, calls, outcome, hist, seen,
                   flow, applied, reauth, jar, other>>

\* async_added_to_hass goes on with the last state, and the state is written.
SensorAdded ==
    /\ sensor.stage = "listening"
    /\ \E last_state \in LastStates(sensor) :
          sensor' = Written([async_added_to_hass(sensor, last_state, data.usage_records)
                               EXCEPT !.stage = "added", !.last_state = last_state])
    /\ UNCHANGED <<entry, coord, client, data, phase, balance, calls, outcome, hist,
                   seen, flow, applied, reauth, jar, other>>

\* A refresh succeeds with a new series.  The listener runs and the state is
\* written.
SensorRefreshed ==
    /\ sensor.stage # "none"
    /\ \E recs \in SensorSeries :
          /\ data' = PowershopData(1050, recs)
          /\ sensor' = Written(_handle_coordinator_update(sensor, recs))
    /\ UNCHANGED <<entry, coord, client, phase, balance, calls, outcome, hist, seen,
                   flow, applied, reauth, jar, other>>

\* A refresh fails: the data stay, the listener runs all the same.
SensorRefreshFailed ==
    /\ sensor.stage # "none"
    /\ sensor' = Written(_handle_coordinator_update(sensor, data.usage_records))
    /\ UNCHANGED <<entry, coord, client, data, phase, balance, calls, outcome, hist,
                   seen, flow, applied, reauth, jar, other>>

\* Home Assistant restarts: the entity is gone, its last written state is
\* kept for restoring.
SensorRestart ==
    /\ sensor.stage = "added"
    /\ sensor' = [sensor EXCEPT !.stage = "none", !._total_kwh = Absent,
                                !._last_date = Absent, !.stored = sensor.state]
    /\ data' = NoData
    /\ UNCHANGED <<entry, coord, client, phase, balance, calls, outcome, hist, seen,
                   flow, applied, reauth, jar, other>>

NextSensor ==
    \/ SensorListen
    \/ SensorAdded
    \/ SensorRefreshed
    \/ SensorRefreshFailed
    \/ SensorRestart

SpecSensor == InitSensor /\ [][NextSensor]_vars

\* ------------------------------------------------- the windowed sensors
\* The week-to-date, month-to-date and trailing-30-day sensors read after a
\* refresh.  The days: Sunday 7 and Monday 8 January, 31 January, 1 February,
\* Sunday 4, Monday 5 and Tuesday 6 February; the usage of a day tells the day.

ReadDates == {7, 8, 31, 32, 35, 36, 37}
ReadRecords ==
    {UsageRecord(d, Absent, Absent) : d \in ReadDates} \cup
    {UsageRecord(d, Some(100 * d), Absent) : d \in ReadDates}
ReadSeries ==
    {recs \in SeqsUpTo(ReadRecords, MaxReadRecords) :
        \A i, j \in DOMAIN recs : i < j => recs[i].when < recs[j].when}

Readings(week, month, rolling) == [week |-> week, month |-> month, rolling |-> rolling]

\* A refresh succeeds with a series.
ReadingsRefreshed ==
    /\ \E recs \in ReadSeries : data' = PowershopData(1050, recs)
    /\ applied' = NoApplied
    /\ UNCHANGED <<entry, coord, client, phase, balance, calls, outcome, hist, seen,
                   flow, sensor, reauth, jar, other>>

\* The state machine reads native_value of the three sensors.
ReadWindows ==
    /\ data.present
    /\ applied.op = None
    /\ applied' = Applied("native_value", data,
                          Readings(WeekToDateKwh(data), MonthToDateKwh(data),
                                   Rolling30dKwh(data)))
    /\ UNCHANGED <<entry, coord, client, data, phase, balance, calls, outcome, hist,
                   seen, flow, sensor, reauth, jar, other>>

NextReadings == ReadingsRefreshed \/ ReadWindows

SpecReadings == InitSensor /\ [][NextReadings]_vars

\* --------------------------------------------------------- the login page
\* _find_login_form_and_fields and login_if_needed on any root page of up to
\* MaxForms forms.

F_pass == [type |-> "text", name |-> "pass", id |-> "", value |-> ""]
F_email_id == [type |-> "text", name |-> "", id |-> "email", value |-> ""]
F_token2 == [type |-> "hidden", name |-> "authenticity_token", id |-> "", value |-> "tok2"]
F_utf8 == [type |-> "hidden", name |-> "utf8", id |-> "", value |-> ""]
F_shadow == [type |-> "hidden", name |-> "user[email]", id |-> "", value |-> "x"]
F_anonymous == [type |-> "hidden", name |-> "", id |-> "", value |-> "y"]

TokenForm == [action |-> "/token", inputs |-> <<F_hidden>>]
EmailForm == [action |-> "/subscribe", inputs |-> <<F_email_id>>]
PassForm == [action |-> "/unlock", inputs |-> <<F_pass, F_text>>]
SignupForm == [action |-> "/signup", inputs |-> <<F_email, F_password>>]
OtherLoginForm ==
    [action |-> "https://elsewhere/login",
     inputs |-> <<F_utf8, F_anonymous, F_hidden, F_email_id, F_pass>>]
TwiceForm == [action |-> "/twice", inputs |-> <<F_hidden, F_token2, F_email, F_password>>]
ShadowForm == [action |-> "/shadow", inputs |-> <<F_shadow, F_email, F_password>>]
PageForms ==
    {SearchForm, TokenForm, EmailForm, PassForm, SignupForm, LoginForm, OtherLoginForm,
     TwiceForm, ShadowForm}
RootPages ==
    {FailPage} \cup {Page(TRUE, <<>>, f, t) : f \in SeqsUpTo(PageForms, MaxForms),
                                             t \in {None, "csrf-1"}}

InitForms ==
    /\ entry = NoEntry
    /\ coord = NoCoord
    /\ client = PowershopClient(None, "a@b.nz", "pw", NoId, NoId)
    /\ data = NoData
    /\ phase = "idle"
    /\ balance = NoMoney
    /\ calls = <<>>
    /\ outcome = NoOutcome
    /\ hist = NoHist
    /\ seen = NoSeen
    /\ flow = NoFlow
    /\ jar = NoJar
    /\ other = NoClient
    /\ reauth = FALSE
    /\ applied \in {Applied(None, html, <<>>) : html \in RootPages}
    /\ sensor = NoSensor

\* _find_login_form_and_fields on the page, once it has been fetched.
FindLoginForm ==
    /\ applied.op = None /\ applied.input.ok
    /\ applied' = Applied("_find_login_form_and_fields", applied.input,
                          _find_login_form_and_fields(applied.input))
    /\ UNCHANGED <<entry, coord, client, data, phase, balance, calls, outcome, hist,
                   seen, flow, sensor, reauth, jar, other>>

\* login_if_needed with the page as the portal's root page.
LoginOnPage ==
    /\ applied.op = None
    /\ \E po \in PostResponses :
       LET r == login_if_needed(client, LoginEnv(applied.input, po))
       IN  /\ calls' = <<Call("login_if_needed", NoArgs, client, r, hist)>>
           /\ client' = r.c
           /\ applied' = Applied("login_if_needed", applied.input, r.reqs)
    /\ UNCHANGED <<entry, coord, data, phase, balance, outcome, hist, seen, flow,
                   sensor, reauth, jar, other>>

NextForms == FindLoginForm \/ LoginOnPage

SpecForms == InitForms /\ [][NextForms]_vars

\* --------------------------------------------------------- the cookie jar
\* Two PowershopClients that authenticate by email and password: `client`,
\* the Session of one account's coordinator, and `other`, built for another
\* account or for the smoke test of a wizard or options-flow step.  The
\* portal answers a login POST that succeeds with a session cookie for the
\* email posted, aiohttp keeps it in the cookie jar of the ClientSession the
\* request went through and sends it with every later request through that
\* ClientSession.

\* The cookie jars after c's login_if_needed has finished with r.
JarAfter(j, c, r) ==
    IF r.err = OK /\ \E n \in DOMAIN r.reqs : r.reqs[n].method = "POST"
    THEN [j EXCEPT ![c.session] = c.email]
    ELSE j

\* The login the cookies sent with c's requests stand for.
CookiesSent(j, c) == j[c.session]

InitJar ==
    /\ entry = NoEntry
    /\ coord = NoCoord
    /\ client = PowershopClient(None, "a@b.nz", "pw", NoId, NoId)
    /\ data = NoData
    /\ phase = "idle"
    /\ balance = NoMoney
    /\ calls = <<>>
    /\ outcome = NoOutcome
    /\ hist = NoHist
    /\ seen = NoSeen
    /\ flow = NoFlow
    /\ jar = NoJar
    /\ other = PowershopClient(None, "c@d.nz", "pw2", NoId, NoId)
    /\ reauth = FALSE
    /\ applied = NoApplied
    /\ sensor = NoSensor

\* _async_update_data of the account, its login_if_needed.
AccountLogin ==
    \E env \in LoginEnvs(client) :
       LET r == login_if_needed(client, env)
       IN  /\ calls' = <<Call("login_if_needed", NoArgs, client, r, hist)>>
           /\ client' = r.c
           /\ hist' = HistAfter(hist, "login_if_needed", r)
           /\ jar' = JarAfter(jar, client, r)
           /\ applied' = NoApplied
           /\ UNCHANGED <<entry, coord, data, phase, balance, outcome, seen, flow, sensor,
                          reauth, other>>

\* _async_update_data of the account, its fetch_balance_nzd: the requests go
\* out with the cookies of the jar.
AccountFetchBalance ==
    \E env \in BalanceEnvs(client, NoId) :
       LET r == fetch_balance_nzd(client, NoId, env)
       IN  /\ calls' = <<Call("fetch_balance_nzd", NoArgs, client, r, hist)>>
           /\ client' = r.c
           /\ applied' = Applied("fetch_balance_nzd", CookiesSent(jar, client), r.reqs)
           /\ UNCHANGED <<entry, coord, data, phase, balance, outcome, hist, seen, flow,
                          sensor, reauth, jar, other>>

\* login_if_needed of the other client: another account's refresh cycle, or
\* the smoke test of async_step_credentials or async_step_auth.
OtherLogin ==
    \E env \in LoginEnvs(other) :
       LET r == login_if_needed(other, env)
       IN  /\ other' = r.c
           /\ jar' = JarAfter(jar, other, r)
           /\ applied' = Applied("login_if_needed", other, r.reqs)
           /\ UNCHANGED <<entry, coord, client, data, phase, balance, calls, outcome,
                          hist, seen, flow, sensor, reauth>>

NextJar == AccountLogin \/ AccountFetchBalance \/ OtherLogin

SpecJar == InitJar /\ [][NextJar]_vars

\* ------------------------------------------------------------ properties

StepOrder == <<"login_if_needed", "fetch_balance_nzd", "fetch_usage_records">>

AllStepsOK(cs) == Len(cs) = Len(StepOrder) /\ \A i \in DOMAIN cs : cs[i].err = OK

HasCredentials(c) == Truthy(c.cookie) \/ (Truthy(c.email) /\ Truthy(c.password))

PasswordSession(c) == ~Truthy(c.cookie) /\ Truthy(c.email) /\ Truthy(c.password)

\* C1: while a refresh cycle runs, the cached RefreshResult changes only in the
\* step that ends the cycle with all three client calls succeeded, and then to
\* a result holding this cycle's balance; every other step of the cycle, a
\* step that ends it with a failure included, leaves the cached result (the
\* result of the most recent successful cycle, or none) as it was.
C1_FailedRefreshKeepsCache ==
    [][phase # "idle" =>
          IF phase' = "idle" /\ AllStepsOK(calls')
          THEN data'.present /\ data'.balance_nzd = balance
          ELSE data' = data]_vars

\* C1 witness: a cycle has failed at the usage fetch on a coordinator that
\* still holds the result of an earlier cycle.
C1_Witness ==
    /\ coord.stored /\ data.present /\ phase = "idle"
    /\ Len(calls) = 3 /\ calls[3].err # OK
    /\ outcome.kind = "UpdateFailed"

\* C2: the client calls of a cycle are made in the order login_if_needed,
\* fetch_balance_nzd, fetch_usage_records; a call is made only after every
\* call before it succeeded, so a failed call is the cycle's last and no
\* request of a later step follows it; and a finished cycle has returned a
\* RefreshResult exactly when all three calls succeeded.
C2_StepOrderShortCircuit ==
    /\ Len(calls) <= Len(StepOrder)
    /\ \A i \in DOMAIN calls :
          /\ calls[i].op = StepOrder[i]
          /\ i < Len(calls) => calls[i].err = OK
    /\ phase # "idle" =>
          /\ \A i \in DOMAIN calls : calls[i].err = OK
          /\ PhaseOp(phase) = StepOrder[Len(calls) + 1]
    /\ (phase = "idle" /\ calls # <<>>) =>
          /\ outcome.kind = "return" <=> AllStepsOK(calls)
          /\ outcome.kind = "UpdateFailed" <=> calls[Len(calls)].err # OK

\* C2 witness: a cycle that logged in with requests and failed at the balance
\* fetch after issuing requests has ended without a usage call.
C2_Witness ==
    /\ phase = "idle" /\ Len(calls) = 2
    /\ calls[1].reqs # <<>>
    /\ calls[2].err # OK /\ calls[2].reqs # <<>>
    /\ outcome.kind = "UpdateFailed"

\* C4: a call of ensure_customer_id (ensure_consumer_id) on a Session that
\* already holds the customer (consumer) identifier succeeds, returns that
\* identifier, issues no request and leaves the Session as it was.
C4_EnsureIdIdempotent ==
    \A i \in DOMAIN calls :
       /\ (calls[i].op = "ensure_customer_id" /\ calls[i].pre.customer_id # NoId) =>
             /\ calls[i].err = OK /\ calls[i].reqs = <<>>
             /\ calls[i].id = calls[i].pre.customer_id
             /\ calls[i].post = calls[i].pre
       /\ (calls[i].op = "ensure_consumer_id" /\ calls[i].pre.consumer_id # NoId) =>
             /\ calls[i].err = OK /\ calls[i].reqs = <<>>
             /\ calls[i].id = calls[i].pre.consumer_id
             /\ calls[i].post = calls[i].pre

\* C4 witness: ensure_customer_id has been called again on a Session whose
\* earlier ensure_customer_id call returned the identifier it now holds.
C4_Witness ==
    /\ calls # <<>>
    /\ calls[1].op = "ensure_customer_id"
    /\ calls[1].before.customer # NoId
    /\ calls[1].pre.customer_id = calls[1].before.customer
    /\ calls[1].id = calls[1].before.customer

\* C5 as claimed: on a Session that authenticates by email and password, a
\* login_if_needed call made after a login has completed issues no request.
C5_LoginOnlyOnce ==
    \A i \in DOMAIN calls :
       (calls[i].op = "login_if_needed" /\ PasswordSession(calls[i].pre)
          /\ calls[i].before.logged_in) =>
             calls[i].reqs = <<>>

\* C5 amended: login_if_needed is a no-op exactly on a Session with a cookie;
\* on a Session that authenticates by email and password every call, one made
\* after a completed login included, requests the root page again, and a call
\* that succeeds has submitted the login form again.
C5_LoginRepeatedUnlessCookie ==
    \A i \in DOMAIN calls :
       calls[i].op = "login_if_needed" =>
          /\ Truthy(calls[i].pre.cookie) =>
                (calls[i].err = OK /\ calls[i].reqs = <<>>)
          /\ PasswordSession(calls[i].pre) =>
                /\ calls[i].reqs # <<>>
                /\ calls[i].reqs[1].method = "GET" /\ calls[i].reqs[1].path = "/"
                /\ calls[i].err = OK =>
                      (Len(calls[i].reqs) = 2 /\ calls[i].reqs[2].method = "POST")

\* C5 witness: a later cycle's login_if_needed, on a Session whose login had
\* completed before, has fetched and submitted the login form again.
C5_Witness ==
    \E i \in DOMAIN calls :
       /\ calls[i].op = "login_if_needed" /\ calls[i].before.logged_in
       /\ PasswordSession(calls[i].pre)
       /\ calls[i].err = OK /\ Len(calls[i].reqs) = 2

\* C6 as claimed: whatever operation is called, in whatever order, it issues a
\* request only on a Session that has a cookie or both an email and a password.
C6_RequestOnlyWithCredentials ==
    \A i \in DOMAIN calls :
       calls[i].reqs # <<>> => HasCredentials(calls[i].pre)

\* C7 as claimed: when a usage fetch fails with InvalidScale, neither it nor
\* any earlier call of the refresh cycle it belongs to has issued a request.
C7_InvalidScaleBeforeAnyRequest ==
    \A i \in DOMAIN calls :
       calls[i].err = InvalidScale => \A j \in 1..i : calls[j].reqs = <<>>

\* C8 as claimed: the coordinator of an account whose options were never
\* edited runs with usage_scale "day", usage_days 7 and a 60 minute interval.
C8_DefaultsWhenOptionsUnset ==
    (coord.exists /\ ~entry.options.set) =>
       /\ coord.usage_scale = DEFAULT_USAGE_SCALE
       /\ coord.usage_days = DEFAULT_USAGE_DAYS
       /\ coord.update_interval = DEFAULT_SCAN_INTERVAL_MIN

\* The consumer a fetch_usage_records call works for: the one it was given,
\* else the one the Session holds once the call has resolved it.
ResolvedConsumer(k) ==
    IF k.args.consumer_id # NoId THEN k.args.consumer_id ELSE k.post.consumer_id

\* C9: a request for the CSV export is the last request of its
\* fetch_usage_records call and comes right after the GET of the same
\* customer's usage page with selected_consumer_id set to the resolved
\* consumer; as a failed request ends the call, the priming GET has succeeded
\* before the CSV request, and a failed priming GET is followed by none.
C9_CsvAfterPriming ==
    \A i \in DOMAIN calls :
       \A j \in DOMAIN calls[i].reqs :
          calls[i].reqs[j].path = "/usage/data.csv" =>
             /\ calls[i].op = "fetch_usage_records"
             /\ j = Len(calls[i].reqs) /\ j >= 2
             /\ calls[i].reqs[j - 1].method = "GET"
             /\ calls[i].reqs[j - 1].path = "/customers/{cid}/usage"
             /\ calls[i].reqs[j - 1].cid = calls[i].reqs[j].cid
             /\ calls[i].reqs[j - 1].sel # NoId
             /\ calls[i].reqs[j - 1].sel = ResolvedConsumer(calls[i])

\* C9 witness: a fetch_usage_records call that looked the consumer up itself
\* has primed the usage page and fetched the CSV export.
C9_Witness ==
    /\ calls # <<>>
    /\ calls[1].op = "fetch_usage_records" /\ calls[1].err = OK
    /\ calls[1].args.consumer_id = NoId /\ calls[1].pre.consumer_id = NoId
    /\ calls[1].reqs[Len(calls[1].reqs)].path = "/usage/data.csv"

\* The links of a page that parse_customer_id_from_url finds a customer in.
MatchingLinks(page) ==
    {n \in DOMAIN page.links : parse_customer_id_from_url(page.links[n]) # NoId}

\* The customer of the first such link in document order.
FirstMatch(page) == parse_customer_id_from_url(page.links[Min(MatchingLinks(page))])

\* C10: ensure_customer_id on a Session without a cached customer requests
\* /properties first and the root page only when /properties was served and
\* none of its links matches; it caches and returns the customer of the first
\* matching link, in document order, of the first page that has one; when both
\* pages are served and neither has a match it fails with CustomerIdNotFound;
\* and whenever it fails the cache stays empty.
C10_CustomerLookup ==
    \A i \in DOMAIN calls :
       (calls[i].op = "ensure_customer_id" /\ calls[i].pre.customer_id = NoId) =>
          /\ Len(calls[i].reqs) \in {1, 2}
          /\ calls[i].reqs[1].method = "GET" /\ calls[i].reqs[1].path = "/properties"
          /\ Len(calls[i].reqs) = 2 =>
                /\ calls[i].reqs[2].method = "GET" /\ calls[i].reqs[2].path = "/"
                /\ seen[1].ok /\ MatchingLinks(seen[1]) = {}
          /\ (seen[1].ok /\ MatchingLinks(seen[1]) # {}) =>
                /\ calls[i].err = OK /\ Len(calls[i].reqs) = 1
                /\ calls[i].id = FirstMatch(seen[1])
          /\ (seen[1].ok /\ MatchingLinks(seen[1]) = {}
                /\ seen[2].ok /\ MatchingLinks(seen[2]) # {}) =>
                /\ calls[i].err = OK
                /\ calls[i].id = FirstMatch(seen[2])
          /\ (seen[1].ok /\ MatchingLinks(seen[1]) = {}
                /\ seen[2].ok /\ MatchingLinks(seen[2]) = {}) =>
                /\ calls[i].err = CustomerIdNotFound
                /\ ErrClass(calls[i].err) = "PowershopAuthError"
          /\ calls[i].err = OK => calls[i].post.customer_id = calls[i].id
          /\ calls[i].err # OK => calls[i].post.customer_id = NoId

\* C10 witness: /properties listed a link without a customer, then two links
\* with different customers, and the lookup returned the first of the two.
C10_Witness ==
    /\ calls # <<>>
    /\ calls[1].pre.customer_id = NoId
    /\ seen[1].ok /\ seen[1].links = <<H_other, H_bare, H_balance>>
    /\ calls[1].err = OK /\ calls[1].id = <<"7">>
    /\ calls[1].post.customer_id = <<"7">>

\* The identifiers a usage page holds.
FoundIds(page) == {page.found[n] : n \in DOMAIN page.found}

\* C11: ensure_consumer_id on a Session without a cached consumer resolves the
\* customer first (its requests come before the one request for that
\* customer's usage page, which is the last); when that page is served it
\* returns and caches the identifier that sorts first, in string order, among
\* the distinct selected_consumer_id values of the page, and fails with
\* ConsumerIdNotFound when the page holds none; whenever it fails the cached
\* consumer stays empty.
C11_ConsumerLookup ==
    \A i \in DOMAIN calls :
       (calls[i].op = "ensure_consumer_id" /\ calls[i].pre.consumer_id = NoId) =>
          /\ calls[i].reqs # <<>>
          /\ calls[i].pre.customer_id = NoId => calls[i].reqs[1].path = "/properties"
          /\ \A j \in DOMAIN calls[i].reqs :
                IF calls[i].reqs[j].path = "/customers/{cid}/usage"
                THEN /\ j = Len(calls[i].reqs)
                     /\ calls[i].reqs[j].cid # NoId
                     /\ calls[i].reqs[j].cid = calls[i].post.customer_id
                ELSE calls[i].reqs[j].path \in {"/properties", "/"}
          /\ (calls[i].reqs[Len(calls[i].reqs)].path = "/customers/{cid}/usage"
                /\ seen[3].ok) =>
                IF FoundIds(seen[3]) = {}
                THEN calls[i].err = ConsumerIdNotFound
                ELSE /\ calls[i].err = OK
                     /\ calls[i].id \in FoundIds(seen[3])
                     /\ \A y \in FoundIds(seen[3]) \ {calls[i].id} :
                           StrLess(calls[i].id, y)
          /\ calls[i].err = OK => calls[i].post.consumer_id = calls[i].id
          /\ calls[i].err # OK => calls[i].post.consumer_id = NoId

\* C11 witness: the usage page named consumer 9, then 10, then 9 again, and a
\* Session without customer and consumer got 10, the first in string order.
C11_Witness ==
    /\ calls # <<>>
    /\ calls[1].op = "ensure_consumer_id"
    /\ calls[1].pre.customer_id = NoId /\ calls[1].pre.consumer_id = NoId
    /\ seen[3].ok /\ seen[3].found = << <<"9">>, <<"1", "0">>, <<"9">> >>
    /\ calls[1].err = OK /\ calls[1].id = <<"1", "0">>
    /\ calls[1].post.consumer_id = <<"1", "0">>

Failures ==
    {AuthConfigError, LoginFormNotFound, LoginFieldsNotFound, CustomerIdNotFound,
     ConsumerIdNotFound, BalanceUnparsable, InvalidScale, Transport}

\* How the claim has a failure reported: "PowershopError" stands for the
\* failure's own message without a prefix.
ReportedAs(err) ==
    IF err \in {AuthConfigError, LoginFormNotFound, LoginFieldsNotFound, CustomerIdNotFound}
    THEN "Auth failed"
    ELSE IF err \in {ConsumerIdNotFound, BalanceUnparsable} THEN "PowershopError"
    ELSE "Unexpected error"

\* C12: a client call of a refresh cycle that fails ends the cycle at once, and
\* the cycle is reported as UpdateFailed for that failure with the reason of
\* its class: the four authorization failures as "Auth failed",
\* ConsumerIdNotFound and BalanceUnparsable with their own message, InvalidScale
\* and transport errors as "Unexpected error"; the mapping gives every failure
\* of the taxonomy one of these reasons.
C12_FailuresReported ==
    /\ \A e \in Failures : UpdateFailedReason(e) = ReportedAs(e)
    /\ \A i \in DOMAIN calls :
          calls[i].err # OK =>
             /\ calls[i].err \in Failures
             /\ i = Len(calls) /\ phase = "idle"
             /\ outcome.kind = "UpdateFailed"
             /\ outcome.err = calls[i].err
             /\ outcome.reason = ReportedAs(calls[i].err)

\* C12 witness: a cycle has logged in, has failed at the balance fetch with
\* CustomerIdNotFound and is reported as "Auth failed".
C12_Witness ==
    /\ phase = "idle" /\ Len(calls) = 2
    /\ calls[1].reqs # <<>>
    /\ calls[2].err = CustomerIdNotFound
    /\ outcome.kind = "UpdateFailed" /\ outcome.reason = "Auth failed"

\* C13: a wizard step stores the account only after login_if_needed and
\* fetch_balance_nzd both succeeded with the entered credentials, and stores
\* exactly these; a step in which either failed, whatever the failure, has
\* stored nothing and shows the form again with the one error "cannot_connect";
\* the balance is not fetched after a failed login.
C13_WizardStoresOnlyValidated ==
    /\ entry.exists =>
          /\ flow.login = OK /\ flow.balance = OK /\ flow.errors = None
          /\ entry.data = flow.input
          /\ entry.data.auth_method = flow.step
    /\ (flow.step # None /\ (flow.login # OK \/ flow.balance # OK)) =>
          /\ ~entry.exists
          /\ flow.errors = "cannot_connect"
          /\ flow.login # OK => flow.balance = None

\* C13 witness: the wizard's login succeeded with requests to the portal but
\* the balance page could not be parsed: nothing is stored.
C13_Witness ==
    /\ flow.step = AUTH_METHOD_EMAIL_PASSWORD
    /\ flow.login = OK /\ flow.balance = BalanceUnparsable
    /\ flow.errors = "cannot_connect" /\ ~entry.exists

\* The position of a column in the header (the names of a header differ).
ColumnAt(fieldnames, col) == CHOOSE n \in DOMAIN fieldnames : fieldnames[n] = col[1]

\* The cell of a row in a column: blank when the row is too short for it.
CellIn(fieldnames, row, col) ==
    IF ColumnAt(fieldnames, col) \in DOMAIN row THEN row[ColumnAt(fieldnames, col)] ELSE <<>>

\* The date cell of the row is not blank and names a date.
DatedRow(fieldnames, row, cols) ==
    /\ Strip(CellIn(fieldnames, row, cols.date_col)) # <<>>
    /\ date_parser_parse(CellIn(fieldnames, row, cols.date_col)) # Absent

\* The number of a row in a column, Absent without the column or when the
\* cell cannot be converted.
NumberIn(fieldnames, row, col) ==
    IF col = Absent THEN Absent ELSE _to_float(CellIn(fieldnames, row, col))

RecordOf(fieldnames, row, cols) ==
    UsageRecord(date_parser_parse(CellIn(fieldnames, row, cols.date_col))[1],
                NumberIn(fieldnames, row, cols.kwh_col),
                NumberIn(fieldnames, row, cols.cost_col))

Occurrences(seq, x) == Cardinality({n \in DOMAIN seq : seq[n] = x})

\* The header has names and its date column is a named one.
ReadableHeader(csv_text) ==
    /\ csv_text.fieldnames # <<>>
    /\ _guess_columns(csv_text.fieldnames).date_col[1] # <<>>

ClaimedDate(headers) ==
    LET dated == {n \in DOMAIN headers : Contains(Lowered(headers[n]), W_date)}
        named == {n \in DOMAIN headers : Lowered(headers[n]) \in {W_day, W_period, W_start}}
        ends == {n \in DOMAIN headers : Lowered(headers[n]) = W_end}
    IN  IF dated # {} THEN FirstOf(headers, dated)
        ELSE IF named # {} THEN FirstOf(headers, named)
        ELSE IF ends # {} THEN FirstOf(headers, ends)
        ELSE IF headers # <<>> THEN Some(headers[1])
        ELSE Absent

ClaimedUsage(headers) ==
    LET metered == {n \in DOMAIN headers :
                      \/ Contains(Lowered(headers[n]), W_kwh)
                      \/ Lowered(headers[n]) \in {W_usage, W_energy, W_consumption}}
        used == {n \in DOMAIN headers :
                   /\ Contains(Lowered(headers[n]), W_use)
                   /\ ~Contains(Lowered(headers[n]), W_estimate)
                   /\ ~Contains(Lowered(headers[n]), W_cost)}
    IN  IF metered # {} THEN FirstOf(headers, metered) ELSE FirstOf(headers, used)

ClaimedCost(headers) ==
    LET priced == {n \in DOMAIN headers :
                     \E w \in {W_cost, W_price, W_dollar, W_nzd} :
                        Contains(Lowered(headers[n]), w)}
        estimates == {n \in DOMAIN headers : Lowered(headers[n]) = W_estimate}
    IN  IF priced # {} THEN FirstOf(headers, priced) ELSE FirstOf(headers, estimates)

\* C18: for every list of header names _guess_columns returns the columns of
\* the documented chains: the date column is the first header containing
\* "date", else the first that is exactly "day", "period" or "start", else one
\* that is exactly "end", else the first header; the usage and the cost
\* columns likewise by their chains.
C18_DocumentedChains ==
    applied.op = "_guess_columns" =>
        applied.output = Columns(ClaimedDate(applied.input.fieldnames),
                                 ClaimedUsage(applied.input.fieldnames),
                                 ClaimedCost(applied.input.fieldnames))

\* The usage and the cost column do follow their chains, and so does the date
\* column of a header in which no exact name comes before a name containing
\* "date".
C18_ChainsButDatePriority ==
    applied.op = "_guess_columns" =>
        /\ applied.output.kwh_col = ClaimedUsage(applied.input.fieldnames)
        /\ applied.output.cost_col = ClaimedCost(applied.input.fieldnames)
        /\ applied.output.date_col # ClaimedDate(applied.input.fieldnames) =>
              \E n, m \in DOMAIN applied.input.fieldnames :
                 /\ n < m
                 /\ Lowered(applied.input.fieldnames[n]) \in {W_day, W_period, W_start}
                 /\ Contains(Lowered(applied.input.fieldnames[m]), W_date)

\* The requests of the last call for the CSV export.
CsvRequests ==
    IF calls = <<>> \/ calls[1].op # "fetch_usage_records" THEN {}
    ELSE {calls[1].reqs[n] : n \in {m \in DOMAIN calls[1].reqs :
                                      calls[1].reqs[m].path = "/usage/data.csv"}}

\* C19: fetch_usage_records asks for the CSV export with end = today and
\* start = today - max(1, days): whatever the number of days, zero and
\* negative ones too, start is at least one day before end, and for one day
\* or more the window spans exactly that many days.
C19_WindowOfAtLeastOneDay ==
    \A q \in CsvRequests :
       /\ q.q.end = seen[4]
       /\ q.q.start = seen[4] - (IF calls[1].args.days >= 1 THEN calls[1].args.days ELSE 1)
       /\ q.q.start <= q.q.end - 1
       /\ calls[1].args.days >= 1 => q.q.end - q.q.start = calls[1].args.days

\* The export was asked for with a negative number of days: from yesterday on.
C19_Witness ==
    /\ CsvRequests # {}
    /\ calls[1].args.days < 0
    /\ \A q \in CsvRequests : q.q.end = seen[4] /\ q.q.start = seen[4] - 1

\* The number a written state stands for, if it is one.
Reported(s) == IF s.state.present THEN float(s.state.state) ELSE Absent

\* A step in which the coordinator's listener of the sensor ran.
UpdateStep == sensor.stage # "none" /\ sensor'.stage = sensor.stage

\* A step in which the entity was added with the stored state restored.
RestoreStep ==
    sensor.stage = "listening" /\ sensor'.stage = "added" /\ sensor'.last_state = sensor.stored

\* C14: the cumulative-energy counter is monotonic: over coordinator updates
\* (refreshes that succeed or fail, series that are empty or not) and
\* restarts that restore the stored state, each value reported is at least
\* the value reported before.
C14_CounterMonotonic ==
    [][((UpdateStep \/ RestoreStep) /\ Reported(sensor) # Absent /\ Reported(sensor') # Absent)
          => Reported(sensor')[1] >= Reported(sensor)[1]]_vars

\* The counter does not fall as long as no record newer than the last counted
\* date carries a negative usage and the entity takes no update before its
\* state is restored.
C14_MonotonicUnlessCredit ==
    [][((UpdateStep \/ RestoreStep) /\ Reported(sensor) # Absent /\ Reported(sensor') # Absent
         /\ (UpdateStep => sensor.stage = "added")
         /\ (RestoreStep => sensor._total_kwh = Absent)
         /\ \A n \in DOMAIN data'.usage_records :
               data'.usage_records[n].kwh = Absent \/ data'.usage_records[n].kwh[1] >= 0)
          => Reported(sensor')[1] >= Reported(sensor)[1]]_vars

\* The records of a series that carry a usage and are newer than a date.
NewerThan(records, last_date) ==
    SelectSeq(records, LAMBDA r : r.kwh # Absent /\ (last_date = Absent \/ r.when > last_date[1]))

\* The last state is a number.
Numeric(last_state) ==
    /\ last_state.present
    /\ last_state.state \notin {STATE_UNKNOWN, STATE_UNAVAILABLE}
    /\ float(last_state.state) # Absent

\* The last counted date is not before another (no date is before any).
NotBefore(later, earlier) == earlier = Absent \/ (later # Absent /\ later[1] >= earlier[1])

\* The last_record_date a state carries.
DateIn(state) ==
    IF state.last_record_date = Absent THEN Absent
    ELSE fromisoformat(state.last_record_date[1])

\* C15: an update adds the kwh of a record to the counter only if the date of
\* the record is strictly newer than the last date counted, which then moves
\* up to it; the last counted date never moves back, over updates and over
\* restarts that restore it, so no date is added a second time; and an update
\* that delivers again a series the counter has taken into account changes
\* neither the counter nor its last counted date.
C15_NewerDatesOnlyOnce ==
    [][/\ (UpdateStep /\ sensor._total_kwh # Absent) =>
             /\ sensor'._total_kwh =
                   Some(sensor._total_kwh[1] +
                        SumOfKwh(NewerThan(data'.usage_records, sensor._last_date)))
             /\ sensor'._last_date =
                   IF NewerThan(data'.usage_records, sensor._last_date) = <<>>
                   THEN sensor._last_date
                   ELSE _last_record_date(NewerThan(data'.usage_records, sensor._last_date))
             /\ NotBefore(sensor'._last_date, sensor._last_date)
       /\ (RestoreStep /\ Numeric(sensor.stored)) =>
             NotBefore(sensor'._last_date, DateIn(sensor.stored))
       /\ (UpdateStep /\ sensor.processed /\ data' = data) =>
             /\ sensor'._total_kwh = sensor._total_kwh
             /\ sensor'._last_date = sensor._last_date]_vars

\* The counter was started from a window of the first day alone and has then
\* been given the second day: a later window with both days has left the
\* first day out.
C15_Witness ==
    /\ sensor.stage = "added"
    /\ sensor.processed
    /\ data.usage_records = <<UsageRecord(1, Some(-250), Absent), UsageRecord(2, Some(300), Absent)>>
    /\ sensor._total_kwh = Some(600)
    /\ sensor._last_date = Some(2)

\* The counter and its last counted date as started from a window.
StartedFrom(s, records) ==
    /\ s._total_kwh = Some(IF HasKwh(records) THEN SumOfKwh(records) ELSE 0)
    /\ s._last_date = IF records = <<>> THEN Absent ELSE Some(records[Len(records)].when)

\* C16: on the first run or after state loss (no last state, or one that is
\* unknown, unavailable or not a number) the counter starts as the sum of the
\* kwh values present in the current window, 0 without any, and its last
\* counted date as the date of the last record of the window; with a last
\* state that is a number the counter starts from that number.  (A counter
\* the listener has started before the last state arrived was started from
\* the window of that time, and is kept when no last state is usable.)
C16_StartFromWindowOrRestored ==
    [][/\ (sensor.stage = "listening" /\ sensor'.stage = "added") =>
             IF Numeric(sensor'.last_state)
             THEN sensor'._total_kwh = float(sensor'.last_state.state)
             ELSE \/ StartedFrom(sensor', data.usage_records)
                  \/ /\ sensor._total_kwh # Absent
                     /\ sensor'._total_kwh = sensor._total_kwh
                     /\ sensor'._last_date = sensor._last_date
       /\ (UpdateStep /\ sensor._total_kwh = Absent /\ sensor'._total_kwh # Absent) =>
             StartedFrom(sensor', data'.usage_records)]_vars

\* After a restart the stored number was lost (the last state was
\* unavailable) and the counter started from the window, at another value.
C16_Witness ==
    /\ sensor.stage = "added"
    /\ sensor.last_state.state = STATE_UNAVAILABLE
    /\ Numeric(sensor.stored)
    /\ data.usage_records # <<>>
    /\ HasKwh(data.usage_records)
    /\ sensor._total_kwh = Some(SumOfKwh(data.usage_records))
    /\ sensor._total_kwh # float(sensor.stored.state)

\* The sum of the usage of the records at some positions of a series.
RECURSIVE UsageAt(_, _)
UsageAt(records, positions) ==
    IF positions = {} THEN 0
    ELSE LET n == CHOOSE n \in positions : TRUE
         IN  records[n].kwh[1] + UsageAt(records, positions \ {n})

\* The usage from a day to the last record's day: none without a record that
\* carries a usage in between.
UsageSince(records, start) ==
    LET within == {n \in DOMAIN records :
                     /\ records[n].kwh # Absent
                     /\ start <= records[n].when
                     /\ records[n].when <= records[Len(records)].when}
    IN  IF within = {} THEN Absent ELSE Some(UsageAt(records, within))

\* The Monday of the week of a day (day 1 is a Monday) and the first day of
\* its month (1 January, 1 February, 1 March).
MondayOf(day) == CHOOSE m \in (day - 6)..day : (m - 1) % 7 = 0
FirstOfMonth(day) == CHOOSE f \in {1, 32, 61} : f <= day /\ \A g \in {1, 32, 61} : g <= day => g <= f

\* C20: the windowed values are computed from the last refresh result alone
\* and anchored on the date L of its last record: the week-to-date value is
\* the sum of the kwh present in the records from the Monday of L's week to
\* L, the month-to-date value that from the first day of L's month to L, the
\* trailing-30-day value that from L - 29 to L; each is absent when the
\* series is empty or no record of its window carries a kwh.
C20_WindowsAnchoredOnLastRecord ==
    applied.op = "native_value" =>
        LET records == applied.input.usage_records
            L == records[Len(records)].when
        IN  IF records = <<>> THEN applied.output = Readings(Absent, Absent, Absent)
            ELSE applied.output = Readings(UsageSince(records, MondayOf(L)),
                                           UsageSince(records, FirstOfMonth(L)),
                                           UsageSince(records, L - 29))

\* Records of Sunday 7 January, Sunday 4 February and Tuesday 6 February: the
\* week holds the last alone, the month the last two, and the thirty days
\* leave out 7 January.
C20_Witness ==
    /\ applied.op = "native_value"
    /\ applied.input.usage_records =
          <<UsageRecord(7, Some(700), Absent), UsageRecord(35, Some(3500), Absent),
            UsageRecord(37, Some(3700), Absent)>>
    /\ applied.output = Readings(Some(3700), Some(7200), Some(7200))

\* The credentials a Session or a stored configuration holds.
Credentials(x) == <<x.cookie, x.email, x.password>>

\* A refresh cycle starts: the first refresh of async_setup_entry or a timer.
CycleStart == phase = "idle" /\ phase' = "login"

\* C21: once the options flow has changed the stored credentials of a set-up
\* account, the next refresh cycle runs on a Session built after the change:
\* it holds the stored credentials and its customer and consumer id caches
\* are empty.
C21_CyclesAfterReauthOnNewSession ==
    [][(CycleStart /\ reauth) =>
          /\ Credentials(client') = Credentials(entry'.data)
          /\ client'.customer_id = NoId /\ client'.consumer_id = NoId]_vars

\* The Session is rebuilt from the stored configuration only by
\* async_setup_entry: every cycle it starts runs on the stored credentials.
C21_SetupUsesStoredCredentials ==
    [][(CycleStart /\ ~coord.exists) =>
          /\ Credentials(client') = Credentials(entry'.data)
          /\ client'.customer_id = NoId /\ client'.consumer_id = NoId]_vars

\* C22: on one Session a cached customer id and a cached consumer id stay as
\* they are through every client operation, whether it returns or raises.
C22_CachedIdsKept ==
    [][/\ client.customer_id # NoId => client'.customer_id = client.customer_id
       /\ client.consumer_id # NoId => client'.consumer_id = client.consumer_id]_vars

\* C22 witness: ensure_consumer_id failed on a usage page without a consumer,
\* on a Session with a cached customer id, and the id is still cached.
C22_Witness ==
    /\ calls # <<>>
    /\ calls[1].op = "ensure_consumer_id" /\ calls[1].err = ConsumerIdNotFound
    /\ calls[1].pre.customer_id # NoId
    /\ client.customer_id = calls[1].pre.customer_id

\* The score the login page's forms are ranked by.
ClaimedScore(form) ==
    LET inputs == {form.inputs[i] : i \in DOMAIN form.inputs}
    IN  (IF \E inp \in inputs :
               \/ inp.type = "password"
               \/ HasPasswordWord(inp.name) \/ HasPasswordWord(inp.id)
               \/ "pass" \in {inp.name, inp.id}
         THEN 10 ELSE 0)
        + (IF \E inp \in inputs :
                 inp.type = "email" \/ HasEmailWord(inp.name) \/ HasEmailWord(inp.id)
           THEN 5 ELSE 0)
        + (IF \E inp \in inputs : inp.name = "authenticity_token" THEN 2 ELSE 0)

\* C23: the form the login fields are taken from has the maximal score among
\* the forms of the page (+10 for a password input, +5 for an email input, +2
\* for an authenticity_token input) and is the first of that score in
\* document order.
C23_FirstFormOfMaximalScore ==
    (applied.op = "_find_login_form_and_fields" /\ applied.input.forms # <<>>) =>
        \E i \in DOMAIN applied.input.forms :
           LET forms == applied.input.forms
           IN  /\ \A j \in DOMAIN forms : ClaimedScore(forms[j]) <= ClaimedScore(forms[i])
               /\ \A j \in 1..(i - 1) : ClaimedScore(forms[j]) < ClaimedScore(forms[i])
               /\ applied.output = FormOf(forms[i])

\* C23 witness: two forms of the same maximal score 17 with different
\* actions; the fields come from the first.
C23_Witness ==
    /\ applied.op = "_find_login_form_and_fields"
    /\ applied.input.forms = <<LoginForm, OtherLoginForm>>
    /\ applied.output.action_url = <<BASE_URL, "/login">>

\* The login POSTs among the requests of the last call.
Posts == {n \in DOMAIN calls[1].reqs : calls[1].reqs[n].method = "POST"}

\* login_if_needed has run on a root page that was delivered.
LoggedInOn(html) ==
    /\ applied.op = "login_if_needed" /\ applied.input = html
    /\ html.ok /\ calls # <<>>

\* The failures of form discovery: a page without a form fails with
\* LoginFormNotFound, a selected form without an email or a password field
\* name with LoginFieldsNotFound, and no POST is sent in either case; a POST
\* is sent only with both names.
FormFailures(html) ==
    LET f == _find_login_form_and_fields(html)
    IN  /\ html.forms = <<>> => (calls[1].err = LoginFormNotFound /\ Posts = {})
        /\ (html.forms # <<>> /\ (f.email_name = None \/ f.pass_name = None)) =>
              (calls[1].err = LoginFieldsNotFound /\ Posts = {})
        /\ Posts # {} => (html.forms # <<>> /\ f.email_name # None /\ f.pass_name # None)

\* The payload of each POST holds the credentials under the field names.
CredentialsPosted(html) ==
    LET f == _find_login_form_and_fields(html)
    IN  \A n \in Posts :
           LET fields == calls[1].reqs[n].form.fields
           IN  /\ {f.email_name, f.pass_name} \subseteq DOMAIN fields
               /\ fields[f.email_name] = calls[1].pre.email
               /\ fields[f.pass_name] = calls[1].pre.password

\* The payload of each POST holds the hidden input inp of the selected form.
HiddenPosted(inp) ==
    \A n \in Posts :
       LET fields == calls[1].reqs[n].form.fields
       IN  inp.name \in DOMAIN fields /\ fields[inp.name] = inp.value

HiddenInputs(form) ==
    {inp \in {form.inputs[k] : k \in DOMAIN form.inputs} :
        inp.type = "hidden" /\ inp.name # ""}

\* C24: login_if_needed sends the login POST only when the selected form
\* yields an email and a password field name; a page without a form fails
\* with LoginFormNotFound and a form without these fields with
\* LoginFieldsNotFound, without a POST; the payload of a POST holds every
\* named hidden input of the selected form with its value, and the email and
\* the password under the field names.
C24_PostOnlyWithFieldsAndAllHidden ==
    LoggedInOn(applied.input) =>
        /\ FormFailures(applied.input)
        /\ CredentialsPosted(applied.input)
        /\ applied.input.forms # <<>> =>
              \A inp \in HiddenInputs(BestForm(applied.input.forms)) : HiddenPosted(inp)

\* The same with the hidden inputs whose name no later hidden input and
\* neither credential field of the form bears.
C24_PostOnlyWithFieldsAndLastHidden ==
    LoggedInOn(applied.input) =>
        /\ FormFailures(applied.input)
        /\ CredentialsPosted(applied.input)
        /\ applied.input.forms # <<>> =>
              LET form == BestForm(applied.input.forms)
                  f == FormOf(form)
              IN  \A k \in DOMAIN form.inputs :
                     (/\ form.inputs[k] \in HiddenInputs(form)
                      /\ form.inputs[k].name \notin {f.email_name, f.pass_name}
                      /\ \A j \in (k + 1)..Len(form.inputs) :
                            form.inputs[j] \in HiddenInputs(form) =>
                               form.inputs[j].name # form.inputs[k].name)
                     => HiddenPosted(form.inputs[k])

\* The requests of the last client call.
Requests == {calls[1].reqs[n] : n \in DOMAIN calls[1].reqs}

\* The request carries the Cookie header exactly when the Session has a
\* cookie, with the cookie as its value, and the browser-like headers.
BrowserLike(req) ==
    /\ req.cookie # None <=> calls[1].pre.cookie \notin {None, ""}
    /\ req.cookie # None => req.cookie = _cookie_header_value(calls[1].pre.cookie)
    /\ {"User-Agent", "Accept-Language"} \subseteq DOMAIN req.headers
    /\ req.headers["User-Agent"] = DEFAULT_HEADERS["User-Agent"]
    /\ req.headers["Accept-Language"] = DEFAULT_HEADERS["Accept-Language"]

\* The page a request originates from.
OriginatingPage(req) ==
    IF req.path \in {"/properties", "/customers/{cid}/balance", "form-action"}
    THEN "BASE/"
    ELSE IF req.path = "/customers/{cid}/usage" THEN "BASE/customers/{cid}/balance"
    ELSE IF req.path = "/usage/data.csv" THEN "BASE/customers/{cid}/usage"
    ELSE None

\* C25 as stated: every request of the Session Client carries the Cookie
\* header exactly when a cookie is configured, the User-Agent and language
\* headers, and a Referer header.
C25_EveryRequestWithReferer ==
    calls # <<>> => \A req \in Requests : BrowserLike(req) /\ req.referer # None

\* C25: every request carries the Cookie header exactly when a cookie is
\* configured and the User-Agent and language headers; every request but the
\* GETs of the root page carries its originating page as the Referer, and the
\* GETs of the root page carry no Referer.
C25_RefererButOnRootPage ==
    calls # <<>> =>
        \A req \in Requests :
           /\ BrowserLike(req)
           /\ req.referer = OriginatingPage(req)
           /\ req.referer = None <=> req.path = "/"

\* C25 witness: on a Session with a cookie, ensure_customer_id asked for
\* /properties with the Cookie header and the Referer, then for the root page
\* with the Cookie header and without a Referer.
C25_Witness ==
    /\ calls # <<>> /\ calls[1].op = "ensure_customer_id"
    /\ calls[1].pre.cookie = " sid=A "
    /\ Len(calls[1].reqs) = 2
    /\ calls[1].reqs[1].path = "/properties" /\ calls[1].reqs[1].referer = "BASE/"
    /\ calls[1].reqs[1].cookie = "sid=A"
    /\ calls[1].reqs[2].path = "/" /\ calls[1].reqs[2].referer = None
    /\ calls[1].reqs[2].cookie = "sid=A"

\* C26: a login of another client (another account's cycle, a wizard or an
\* options-flow step) leaves the cookies sent with the account's requests as
\* they were.
C26_JarOfOneAccount ==
    [][(applied'.op = "login_if_needed" /\ applied'.input = other) =>
          CookiesSent(jar', client') = CookiesSent(jar, client)]_vars

\* The cookies sent with the account's requests stand for a login, and the
\* last login that went through the shared ClientSession is the one.
C26_JarOfTheInstance ==
    /\ client.session = other.session
    /\ CookiesSent(jar, client) \in {None, client.email, other.email}

\* The stored configuration holds exactly the credentials of its auth_method.
Gated(d) ==
    /\ d.auth_method \in {AUTH_METHOD_COOKIE, AUTH_METHOD_EMAIL_PASSWORD}
    /\ d.auth_method = AUTH_METHOD_COOKIE =>
          (d.cookie \notin {None, ""} /\ d.email = None /\ d.password = None)
    /\ d.auth_method = AUTH_METHOD_EMAIL_PASSWORD =>
          (d.email \notin {None, ""} /\ d.password \notin {None, ""} /\ d.cookie = None)

\* The configurations whose credentials the portal can let through the smoke
\* test.
Validatable ==
    {AuthData(NoEntry.data, o[1].method, o[1].email, o[1].password, o[1].cookie) :
        o \in {x \in AuthOutcomes : x[2]}}

\* C27: through every wizard and options-flow auth step the stored
\* configuration holds exactly the credentials of its auth_method (a cookie
\* and neither email nor password, or an email and a password and no cookie);
\* it changes only to credentials that passed the smoke test, and a wizard
\* step that ended with an error stored nothing.
C27_CredentialsOfTheMethod ==
    [][/\ entry'.exists => Gated(entry'.data)
       /\ entry'.data # entry.data => entry'.data \in Validatable
       /\ (flow' # flow /\ flow'.errors # None) => entry' = entry]_vars

\* C27 witness: the account was created with an email and a password, and
\* the options flow has replaced them by a cookie while it was set up.
C27_Witness ==
    /\ flow.step = AUTH_METHOD_EMAIL_PASSWORD /\ flow.errors = None
    /\ reauth /\ coord.stored
    /\ entry.data.auth_method = AUTH_METHOD_COOKIE
    /\ entry.data.cookie = " sid=A "
    /\ entry.data.email = None /\ entry.data.password = None

====
